---- MODULE Spec2Model ----
(***************************************************************************)
(* Zone allocator of ZenFS (fs/zbd_zenfs.cc): zones, the open/active token *)
(* accounting, the busy flag, the migration slot and the deferred status.  *)
(***************************************************************************)
EXTENDS Integers, Naturals, Sequences, FiniteSets, TLC

(* ---------------------------------------------------------------- bounds *)
\* number of sequential-write-required zones listed after the meta zones
NIO == 2
\* number of client threads
NThreads == 2
\* size of a zone, in blocks
ZoneSize == 3
\* number of Zone::Reset calls of one run
MaxResets == 1
\* number of the first ZENFS_META_ZONES zones that are not offline
NMeta == 1
\* number of calls the clients make in one run
MaxCalls == 4
\* largest number of active or open zones a device allows
MaxLimit == 3
\* number of Zone::Reset calls of a run that only resets zones
MaxWLResets == 64
\* number of JudgeQpsTrend calls of a run of the idle detector
MaxQpsCalls == 8

(* ------------------------------------------------------ program constants *)
ZENFS_META_ZONES == 3
\* the idle thresholds JudgeQpsTrend goes back to
IdleQpsWriteDefault == 76
IdleQpsReadDefault == 5000
ZENFS_MIN_ZONES == 32
LIFETIME_DIFF_NOT_GOOD == 100
LIFETIME_DIFF_COULD_BE_WORSE == 50
reserved_zones == 2

WLTH_NOT_SET == 0
WLTH_NONE == 1
WLTH_SHORT == 2
WLTH_MEDIUM == 3
WLTH_LONG == 4
WLTH_EXTREME == 5

(* An unsigned int is held as the integer of -2^31 .. 2^31 - 1 congruent to it  *)
(* modulo 2^32: 1u - 2 is held as -1 and stands for 4294967295. Sums and      *)
(* differences are then the integer ones; only comparisons and conversions    *)
(* read the value.                                                            *)
\* x < y for two unsigned int
ULess(x, y) == IF (x < 0) = (y < 0) THEN x < y ELSE y < 0
\* a < u for a long a and an unsigned int u converted to long
LongLessU(a, u) == u < 0 \/ a < u
\* a <= u for a long a and an unsigned int u converted to long
LongLeqU(a, u) == u < 0 \/ a <= u
\* a zone pointer that is nullptr
NoZone == 0
Threads == 1 .. NThreads

VARIABLES
  be,               \* the backend: device limits and the zone report
  zone,             \* the Zone objects, by position in the zone report
  meta_zones,       \* ZonedBlockDevice::meta_zones
  io_zones,         \* ZonedBlockDevice::io_zones
  zbd,              \* scalar fields of ZonedBlockDevice
  migrate_zone_mtx_,\* holder of migrate_zone_mtx_ (0: free)
  opn,              \* position of Open: [pc, i, m, status]
  pc,               \* position of each client thread
  loc,              \* locals of each client thread
  acq,              \* zones whose Acquire() succeeded for a thread, not yet released
  calls             \* number of calls the clients still make in this run

vars == <<be, zone, meta_zones, io_zones, zbd, migrate_zone_mtx_, opn, pc, loc, acq,
          calls>>

(* ------------------------------------------------------------- backend *)
\* ZonedBlockDeviceBackend::ZoneStart of entry i of the zone report
ZoneStart(i) == (i - 1) * be.zone_size

\* the report of a conventional zone
Conventional ==
  [swr |-> FALSE, offline |-> FALSE, active |-> FALSE, open |-> FALSE,
   wp |-> 0, max_capacity |-> 0, writable |-> TRUE]

\* entry i of the zone report; be.rep holds the entries that are not conventional
EntryAt(i) == IF i \in DOMAIN be.rep THEN be.rep[i] ELSE Conventional

\* a zone object before Open has constructed it
NullZone == [busy_ |-> FALSE, start_ |-> 0, max_capacity_ |-> 0, wp_ |-> 0,
             lifetime_ |-> WLTH_NOT_SET, used_capacity_ |-> 0, capacity_ |-> 0,
             reset_count_ |-> 0]

(* ---------------------------------------------------------------- Zone *)
\* Zone::Zone
NewZone(i) ==
  LET e == EntryAt(i) IN
  [busy_ |-> FALSE,
   start_ |-> ZoneStart(i),
   max_capacity_ |-> e.max_capacity,
   wp_ |-> ZoneStart(i) + e.wp,
   lifetime_ |-> WLTH_NOT_SET,
   used_capacity_ |-> 0,
   capacity_ |-> IF e.writable THEN e.max_capacity - e.wp ELSE 0,
   reset_count_ |-> 0]

IsUsed(z) == zone[z].used_capacity_ > 0
IsFull(z) == zone[z].capacity_ = 0
IsEmpty(z) == zone[z].wp_ = zone[z].start_
IsBusy(z) == zone[z].busy_

\* Acquire that succeeds on a busy zone
CanAcquireAlways(z) == TRUE
\* Zone::Acquire / Zone::Release: compare-and-set of busy_
CanAcquire(z) == ~zone[z].busy_
CanRelease(z) == zone[z].busy_

\* Reset that leaves the lifetime hint in place
ZResetKeepsLifetime(zr, offline, max_capacity) ==
  [zr EXCEPT !.capacity_ = IF offline THEN 0 ELSE max_capacity,
             !.max_capacity_ = IF offline THEN @ ELSE max_capacity,
             !.wp_ = zr.start_,
             !.reset_count_ = @ + 1]
\* the Zone fields Zone::Reset writes, after a successful backend reset
ZReset(zr, offline, max_capacity) ==
  [zr EXCEPT !.capacity_ = IF offline THEN 0 ELSE max_capacity,
             !.max_capacity_ = IF offline THEN @ ELSE max_capacity,
             !.wp_ = zr.start_,
             !.lifetime_ = WLTH_NOT_SET,
             !.reset_count_ = @ + 1]

\* the Zone fields Zone::Finish writes, after a successful backend finish
ZFinish(zr) ==
  [zr EXCEPT !.capacity_ = 0, !.wp_ = zr.start_ + be.zone_size]

\* Append that moves the write pointer only
ZAppendKeepsCapacity(zr, w) == [zr EXCEPT !.wp_ = @ + w]
\* the Zone fields Zone::Append writes when the backend wrote w bytes in all
ZAppend(zr, w) ==
  [zr EXCEPT !.wp_ = @ + w, !.capacity_ = @ - w]

\* Zone::Close calls the backend iff the zone is neither empty nor full
CloseCallsBackend(z) == ~(IsEmpty(z) \/ IsFull(z))

(* ------------------------------------------------- wear-leveling trigger *)
RECURSIVE SumResets(_, _)
SumResets(zs, zn) ==
  IF zs = <<>> THEN 0 ELSE zn[Head(zs)].reset_count_ + SumResets(Tail(zs), zn)

\* ZonedBlockDevice::GetMetaZoneResetCountNow
GetMetaZoneResetCountNow(zn) == SumResets(meta_zones, zn)
\* ZonedBlockDevice::GetIOZoneResetCountNow
GetIOZoneResetCountNow(zn) == SumResets(io_zones, zn)

ISqrt(n) == CHOOSE r \in 0 .. n : r * r <= n /\ (r + 1) * (r + 1) > n

RECURSIVE SumSqDev(_, _, _)
SumSqDev(zs, zn, mean) ==
  IF zs = <<>> THEN 0
  ELSE (zn[Head(zs)].reset_count_ - mean) * (zn[Head(zs)].reset_count_ - mean)
       + SumSqDev(Tail(zs), zn, mean)

\* ZonedBlockDevice::GetResetCountStdDev, in hundredths
GetResetCountStdDev100(zn) ==
  LET n == Len(io_zones)
      mean == GetIOZoneResetCountNow(zn) \div n
  IN ISqrt((SumSqDev(io_zones, zn, mean) * 10000) \div n)

\* reset_ratio_threshold_ / (1 + (std_dev - 1.5) / 1.5), i.e. threshold * 1.5 / std_dev
DampedThreshold(thr, zn) ==
  LET s == GetResetCountStdDev100(zn) IN
  IF s = 0 THEN thr ELSE (thr * 150) \div s

\* the device fields Zone::Reset writes after the zone's own (lines 110-131);
\* zn is the zone table after the reset; wl_worker_cv_ counts the notify_one
\* calls of WakeupWLWorker
ResetDevice(d, zn) ==
  LET total == d.total_reset_count_ + 1
      io == total - GetMetaZoneResetCountNow(zn)
      check == IF ULess(d.check_reset_count_, be.nr_zones) THEN be.nr_zones
               ELSE d.check_reset_count_
      diff == io - check
      fire == ULess(io * d.reset_ratio_threshold_, 100 * diff)
              /\ ~ULess(diff, be.nr_zones)
      damp == d.wl_trigger_count_ >= 2
  IN IF ULess(be.nr_zones, total)
     THEN IF fire
          THEN [d EXCEPT !.total_reset_count_ = total,
                         !.wl_trigger_count_ = IF damp THEN 0 ELSE @,
                         !.reset_ratio_threshold_ =
                             IF damp THEN DampedThreshold(@, zn) ELSE @,
                         !.wl_worker_cv_ = @ + 1,
                         !.wl_worker_sleep_ = FALSE,
                         !.check_reset_count_ = io]
          ELSE [d EXCEPT !.total_reset_count_ = total,
                         !.check_reset_count_ = check]
     ELSE [d EXCEPT !.total_reset_count_ = total]

(* ---------------------------------------------------------------- Open *)
\* unsigned int arithmetic of "max_nr_active_zones - reserved_zones"
IOLimit(max_nr_zones) ==
  IF max_nr_zones = 0 THEN be.nr_zones ELSE max_nr_zones - reserved_zones

\* the number of zones the backend lists
ZoneCount == be.listed

\* lines 426-456: argument check, backend open, limits, zone listing
OpenBegin ==
  /\ opn.pc = "start"
  /\ IF ~opn.readonly /\ ~opn.exclusive
       THEN opn' = [opn EXCEPT !.pc = "failed", !.status = "InvalidArgument"]
            /\ UNCHANGED zbd
     ELSE IF ~be.open_ok
       THEN opn' = [opn EXCEPT !.pc = "failed", !.status = "IOError"]
            /\ UNCHANGED zbd
     ELSE IF be.nr_zones < ZENFS_MIN_ZONES
       THEN opn' = [opn EXCEPT !.pc = "failed", !.status = "NotSupported"]
            /\ UNCHANGED zbd
     ELSE /\ zbd' = [zbd EXCEPT
                       !.max_nr_active_io_zones_ = IOLimit(be.max_active),
                       !.max_nr_open_io_zones_ = IOLimit(be.max_open)]
          /\ IF ZoneCount # be.nr_zones
               THEN opn' = [opn EXCEPT !.pc = "failed", !.status = "IOError"]
               ELSE opn' = [opn EXCEPT !.pc = "meta", !.i = 1, !.m = 0]
  /\ UNCHANGED <<calls, be, zone, meta_zones, io_zones, migrate_zone_mtx_, pc, loc, acq>>

\* only the zones that are not offline count
MetaCountedUsable(e) == e.swr /\ ~e.offline
\* lines 460-465: the listed zone counts as one of the ZENFS_META_ZONES
MetaCounted(e) == e.swr

\* lines 458-470: one iteration of the meta zone loop, or its exit
OpenMeta ==
  /\ opn.pc = "meta"
  /\ IF opn.m < ZENFS_META_ZONES /\ opn.i <= ZoneCount
       THEN LET e == EntryAt(opn.i) IN
            /\ IF e.swr /\ ~e.offline
                 THEN /\ meta_zones' = Append(meta_zones, opn.i)
                      /\ zone' = [zone EXCEPT ![opn.i] = NewZone(opn.i)]
                 ELSE UNCHANGED <<meta_zones, zone>>
            /\ opn' = [opn EXCEPT !.i = @ + 1,
                                  !.m = IF MetaCounted(e) THEN @ + 1 ELSE @]
            /\ UNCHANGED zbd
       ELSE /\ zbd' = [zbd EXCEPT !.active_io_zones_ = 0, !.open_io_zones_ = 0]
            /\ opn' = [opn EXCEPT !.pc = "io"]
            /\ UNCHANGED <<meta_zones, zone>>
  /\ UNCHANGED <<calls, be, io_zones, migrate_zone_mtx_, pc, loc, acq>>

\* only the zones that are open take an active token
CountedOpen(e) == e.open
\* line 482: the listed zone takes an active token
CountedActive(e) == e.active

\* lines 472-490: one entry of the io zone loop up to the Close, or the loop's exit
OpenIO ==
  /\ opn.pc = "io"
  /\ IF opn.i <= ZoneCount
       THEN LET e == EntryAt(opn.i) IN
            IF e.swr /\ ~e.offline
              THEN /\ zone' = [zone EXCEPT ![opn.i] =
                                 [NewZone(opn.i) EXCEPT !.busy_ = TRUE]]
                   /\ acq' = [acq EXCEPT ![0] = @ \cup {opn.i}]
                   /\ io_zones' = Append(io_zones, opn.i)
                   /\ zbd' = [zbd EXCEPT !.active_io_zones_ =
                                IF CountedActive(e) THEN @ + 1 ELSE @]
                   /\ opn' = [opn EXCEPT !.pc =
                                IF e.active /\ e.open /\ ~opn.readonly
                                  THEN "io_close" ELSE "io_release"]
              ELSE /\ opn' = [opn EXCEPT !.i = @ + 1]
                   /\ UNCHANGED <<zone, acq, io_zones, zbd>>
       ELSE /\ opn' = [opn EXCEPT !.pc = "done", !.status = "OK"]
            /\ UNCHANGED <<zone, acq, io_zones, zbd>>
  /\ UNCHANGED <<calls, be, meta_zones, migrate_zone_mtx_, pc, loc>>

\* line 487: newZone->Close(), its status ignored
OpenIOClose ==
  /\ opn.pc = "io_close"
  /\ opn' = [opn EXCEPT !.pc = "io_release"]
  /\ UNCHANGED <<calls, be, zone, meta_zones, io_zones, zbd, migrate_zone_mtx_, pc, loc, acq>>

\* lines 491-494: newZone->CheckRelease()
OpenIORelease ==
  /\ opn.pc = "io_release"
  /\ IF CanRelease(opn.i)
       THEN /\ zone' = [zone EXCEPT ![opn.i].busy_ = FALSE]
            /\ acq' = [acq EXCEPT ![0] = @ \ {opn.i}]
            /\ opn' = [opn EXCEPT !.pc = "io", !.i = @ + 1]
       ELSE /\ opn' = [opn EXCEPT !.pc = "failed", !.status = "Corruption"]
            /\ UNCHANGED <<zone, acq>>
  /\ UNCHANGED <<calls, be, meta_zones, io_zones, zbd, migrate_zone_mtx_, pc, loc>>

Open == OpenBegin \/ OpenMeta \/ OpenIO \/ OpenIOClose \/ OpenIORelease

Opened == opn.pc = "done"

(* ------------------------------------------------------- thread plumbing *)
DefaultLoc ==
  [op |-> "none", st |-> "OK", out |-> NoZone, i |-> 0, cur |-> NoZone,
   az |-> NoZone, victim |-> NoZone, hint |-> WLTH_NOT_SET, wal |-> FALSE,
   minc |-> 0, bd |-> LIFETIME_DIFF_NOT_GOOD, got |-> FALSE, score |-> 0,
   full |-> FALSE, newz |-> FALSE, rel |-> "OK", qps |-> <<>>, verdict |-> 0,
   tok |-> <<0, 0>>]

Goto(t, p) == pc' = [pc EXCEPT ![t] = p]
SetLoc(t, r) == loc' = [loc EXCEPT ![t] = r]

\* a successful Zone::Acquire by thread t
AcquireZ(t, z) ==
  /\ zone' = [zone EXCEPT ![z].busy_ = TRUE]
  /\ acq' = [acq EXCEPT ![t] = @ \cup {z}]

\* a successful Zone::Release by thread t
ReleaseZ(t, z) ==
  /\ zone' = [zone EXCEPT ![z].busy_ = FALSE]
  /\ acq' = [acq EXCEPT ![t] = @ \ {z}]

\* call op returns status st and hands zone out (or nullptr) to its caller
ReturnAs(t, op, st, out) ==
  /\ pc' = [pc EXCEPT ![t] = "ret"]
  /\ loc' = [loc EXCEPT ![t] = [DefaultLoc EXCEPT !.op = op, !.st = st,
                                                  !.out = out]]

\* the call in progress returns; its caller remembers the lifetime it asked
\* for and whether the zone it got was opened by this call
Return(t, st, out) ==
  /\ pc' = [pc EXCEPT ![t] = "ret"]
  /\ loc' = [loc EXCEPT ![t] = [DefaultLoc EXCEPT !.op = loc[t].op, !.st = st,
                                                  !.out = out,
                                                  !.hint = loc[t].hint,
                                                  !.newz = loc[t].newz]]

\* the caller is between two calls and holds no zone
Idle(t) == Opened /\ pc[t] \in {"idle", "ret"} /\ loc[t].out = NoZone
\* the caller holds the zone its last call handed out
Holding(t) == pc[t] = "ret" /\ loc[t].out # NoZone

Call(t, op, hint, wal, minc, first) ==
  /\ Idle(t)
  /\ calls > 0
  /\ calls' = calls - 1
  /\ pc' = [pc EXCEPT ![t] = first]
  /\ loc' = [loc EXCEPT ![t] = [DefaultLoc EXCEPT !.op = op, !.hint = hint,
                                  !.wal = wal, !.minc = minc, !.i = 1]]

(* ---------------------------------------------------------- token pool *)
\* ZonedBlockDevice::WaitForOpenIOZoneToken: the limit of the wait
OpenLimit(prioritized) ==
  IF prioritized THEN zbd.max_nr_open_io_zones_
  ELSE zbd.max_nr_open_io_zones_ - 1

\* the predicate of the wait in WaitForOpenIOZoneToken
OpenTokenFree(prioritized) == LongLessU(zbd.open_io_zones_, OpenLimit(prioritized))
\* the test of GetActiveIOZoneTokenIfAvailable
ActiveTokenFree == LongLessU(zbd.active_io_zones_, zbd.max_nr_active_io_zones_)

TakeOpen(d) == [d EXCEPT !.open_io_zones_ = @ + 1]
TakeActive(d) == [d EXCEPT !.active_io_zones_ = @ + 1]
\* ZonedBlockDevice::PutOpenIOZoneToken
PutOpen(d) == [d EXCEPT !.open_io_zones_ = @ - 1]
\* ZonedBlockDevice::PutActiveIOZoneToken
PutActive(d) == [d EXCEPT !.active_io_zones_ = @ - 1]

(* ---------------------------------------------------- ResetUnusedIOZones *)
\* the backend's answers to a reset of zone z: <<ok, offline, max_capacity>>
BackendReset(z) ==
  IF zbd.total_reset_count_ < MaxResets
    THEN {<<TRUE, FALSE, be.rep[z].max_capacity>>,
          <<TRUE, TRUE, be.rep[z].max_capacity>>,
          <<FALSE, FALSE, be.rep[z].max_capacity>>}
    ELSE {<<FALSE, FALSE, be.rep[z].max_capacity>>}

\* Zone::Reset of zone z by thread t with backend answer r; TRUE iff it returned OK
ResetZone(z, r) ==
  IF r[1]
    THEN LET zn == [zone EXCEPT ![z] = ZReset(@, r[2], r[3])] IN
         zone' = zn /\ zbd' = ResetDevice(zbd, zn)
    ELSE UNCHANGED <<zone, zbd>>

CallResetUnusedIOZones(t) ==
  /\ Call(t, "ResetUnusedIOZones", WLTH_NOT_SET, FALSE, 0, "ru_scan")
  /\ UNCHANGED <<be, zone, meta_zones, io_zones, zbd, migrate_zone_mtx_, opn, acq>>

\* lines 783-786, 792: loop head, Acquire and the test of the zone
RuScan(t) ==
  /\ pc[t] = "ru_scan"
  /\ LET l == loc[t] IN
     IF l.i > Len(io_zones)
       THEN Return(t, "OK", NoZone) /\ UNCHANGED <<zone, acq>>
     ELSE LET z == io_zones[l.i] IN
       IF ~CanAcquire(z)
         THEN SetLoc(t, [l EXCEPT !.i = @ + 1]) /\ UNCHANGED <<pc, zone, acq>>
         ELSE /\ AcquireZ(t, z)
              /\ IF ~IsEmpty(z) /\ ~IsUsed(z)
                   THEN Goto(t, "ru_reset")
                        /\ SetLoc(t, [l EXCEPT !.cur = z, !.full = IsFull(z)])
                   ELSE Goto(t, "ru_rel") /\ SetLoc(t, [l EXCEPT !.cur = z])
  /\ UNCHANGED <<calls, be, meta_zones, io_zones, zbd, migrate_zone_mtx_, opn>>

\* line 787: z->Reset()
RuReset(t) ==
  /\ pc[t] = "ru_reset"
  /\ \E r \in BackendReset(loc[t].cur) :
       /\ ResetZone(loc[t].cur, r)
       /\ SetLoc(t, [loc[t] EXCEPT !.st = IF r[1] THEN "OK" ELSE "IOError"])
  /\ Goto(t, "ru_rel2")
  /\ UNCHANGED <<calls, be, meta_zones, io_zones, migrate_zone_mtx_, opn, acq>>

\* lines 788-790: CheckRelease and the two status tests
RuRelease2(t) ==
  /\ pc[t] = "ru_rel2"
  /\ LET l == loc[t] IN
     IF ~CanRelease(l.cur)
       THEN Return(t, IF l.st # "OK" THEN l.st ELSE "Corruption", NoZone)
            /\ UNCHANGED <<zone, acq>>
       ELSE /\ ReleaseZ(t, l.cur)
            /\ IF l.st # "OK" THEN Return(t, l.st, NoZone)
               ELSE IF ~l.full THEN Goto(t, "ru_put") /\ UNCHANGED loc
               ELSE Goto(t, "ru_scan")
                    /\ SetLoc(t, [l EXCEPT !.i = @ + 1, !.cur = NoZone])
  /\ UNCHANGED <<calls, be, meta_zones, io_zones, zbd, migrate_zone_mtx_, opn>>

\* line 791: PutActiveIOZoneToken
RuPut(t) ==
  /\ pc[t] = "ru_put"
  /\ zbd' = PutActive(zbd)
  /\ Goto(t, "ru_scan")
  /\ SetLoc(t, [loc[t] EXCEPT !.i = @ + 1, !.cur = NoZone])
  /\ UNCHANGED <<calls, be, zone, meta_zones, io_zones, migrate_zone_mtx_, opn, acq>>

\* lines 793-794: CheckRelease of a zone that is not reset
RuRelease(t) ==
  /\ pc[t] = "ru_rel"
  /\ IF ~CanRelease(loc[t].cur)
       THEN Return(t, "Corruption", NoZone) /\ UNCHANGED <<zone, acq>>
       ELSE /\ ReleaseZ(t, loc[t].cur)
            /\ Goto(t, "ru_scan")
            /\ SetLoc(t, [loc[t] EXCEPT !.i = @ + 1, !.cur = NoZone])
  /\ UNCHANGED <<calls, be, meta_zones, io_zones, zbd, migrate_zone_mtx_, opn>>

ResetUnusedIOZones(t) ==
  RuScan(t) \/ RuReset(t) \/ RuRelease2(t) \/ RuPut(t) \/ RuRelease(t)

(* ------------------------------------------------------- AllocateMetaZone *)
CallAllocateMetaZone(t) ==
  /\ Call(t, "AllocateMetaZone", WLTH_NOT_SET, FALSE, 0, "am_scan")
  /\ UNCHANGED <<be, zone, meta_zones, io_zones, zbd, migrate_zone_mtx_, opn, acq>>

\* what AllocateMetaZone does with an acquired zone that is used (lines 764-775):
\* nothing, the loop goes on to the next zone
AmUsed(t, z) ==
  /\ SetLoc(t, [loc[t] EXCEPT !.i = @ + 1])
  /\ UNCHANGED pc

\* lines 762-765, 772-773, 778-779: loop head, Acquire and the tests of the zone
AmScan(t) ==
  /\ pc[t] = "am_scan"
  /\ LET l == loc[t] IN
     IF l.i > Len(meta_zones)
       THEN Return(t, "NoSpace", NoZone) /\ UNCHANGED <<zone, acq>>
     ELSE LET z == meta_zones[l.i] IN
       IF ~CanAcquire(z)
         THEN SetLoc(t, [l EXCEPT !.i = @ + 1]) /\ UNCHANGED <<pc, zone, acq>>
         ELSE /\ AcquireZ(t, z)
              /\ IF IsUsed(z) THEN AmUsed(t, z)
                 ELSE IF ~IsEmpty(z)
                   THEN Goto(t, "am_reset") /\ SetLoc(t, [l EXCEPT !.cur = z])
                   ELSE Return(t, "OK", z)
  /\ UNCHANGED <<calls, be, meta_zones, io_zones, zbd, migrate_zone_mtx_, opn>>

\* line 766: z->Reset()
AmReset(t) ==
  /\ pc[t] = "am_reset"
  /\ \E r \in BackendReset(loc[t].cur) :
       /\ ResetZone(loc[t].cur, r)
       /\ IF r[1] THEN Return(t, "OK", loc[t].cur)
          ELSE Goto(t, "am_rel") /\ UNCHANGED loc
  /\ UNCHANGED <<calls, be, meta_zones, io_zones, migrate_zone_mtx_, opn, acq>>

\* lines 768-770: CheckRelease after a failed reset, then continue
AmRelease(t) ==
  /\ pc[t] = "am_rel"
  /\ IF ~CanRelease(loc[t].cur)
       THEN Return(t, "Corruption", NoZone) /\ UNCHANGED <<zone, acq>>
       ELSE /\ ReleaseZ(t, loc[t].cur)
            /\ Goto(t, "am_scan")
            /\ SetLoc(t, [loc[t] EXCEPT !.i = @ + 1, !.cur = NoZone])
  /\ UNCHANGED <<calls, be, meta_zones, io_zones, zbd, migrate_zone_mtx_, opn>>

AllocateMetaZone(t) == AmScan(t) \/ AmReset(t) \/ AmRelease(t)

(* --------------------------------------------------------- lifetime diff *)
GetLifeTimeDiff(zone_lifetime, file_lifetime) ==
  IF file_lifetime = WLTH_NOT_SET \/ file_lifetime = WLTH_NONE
    THEN IF file_lifetime = zone_lifetime THEN 0 ELSE LIFETIME_DIFF_NOT_GOOD
  ELSE IF zone_lifetime > file_lifetime THEN zone_lifetime - file_lifetime
  ELSE IF zone_lifetime = file_lifetime THEN LIFETIME_DIFF_COULD_BE_WORSE
  ELSE LIFETIME_DIFF_NOT_GOOD

(* ------------------------------------------------- SetZoneDeferredStatus *)
\* the value of zone_deferred_status_ after SetZoneDeferredStatus(status)
DeferredAfterSet(cur, status) == IF cur # "OK" THEN status ELSE cur

SetZoneDeferredStatus(t, status) ==
  /\ Idle(t)
  /\ calls > 0
  /\ calls' = calls - 1
  /\ zbd' = [zbd EXCEPT !.zone_deferred_status_ = DeferredAfterSet(@, status)]
  /\ pc' = [pc EXCEPT ![t] = "ret"]
  /\ loc' = [loc EXCEPT ![t] = [DefaultLoc EXCEPT !.op = "SetZoneDeferredStatus",
                                                  !.st = status]]
  /\ UNCHANGED <<be, zone, meta_zones, io_zones, migrate_zone_mtx_, opn, acq>>

\* ZonedBlockDevice::GetZoneDeferredStatus
GetZoneDeferredStatus == zbd.zone_deferred_status_

(* --------------------------------------------------- ApplyFinishThreshold *)
\* the backend's answers to a finish: ok or not
BackendFinish == {TRUE, FALSE}

\* no zone is within the threshold
WithinFinishThresholdNever(z) == FALSE
\* line 862-863
WithinFinishThreshold(z) ==
  zone[z].capacity_ < (zone[z].max_capacity_ * zbd.finish_threshold_) \div 100

\* lines 858-864, 876: early return, loop head, Acquire and the test of the zone
FtScan(t) ==
  /\ pc[t] = "ft_scan"
  /\ LET l == loc[t] IN
     IF zbd.finish_threshold_ = 0 \/ l.i > Len(io_zones)
       THEN Goto(t, "al_wait") /\ SetLoc(t, [l EXCEPT !.i = 1])
            /\ UNCHANGED <<zone, acq>>
     ELSE LET z == io_zones[l.i] IN
       IF ~CanAcquire(z)
         THEN SetLoc(t, [l EXCEPT !.i = @ + 1]) /\ UNCHANGED <<pc, zone, acq>>
         ELSE /\ AcquireZ(t, z)
              /\ SetLoc(t, [l EXCEPT !.cur = z])
              /\ IF ~(IsEmpty(z) \/ IsFull(z)) /\ WithinFinishThreshold(z)
                   THEN Goto(t, "ft_finish")
                   ELSE Goto(t, "ft_rel")
  /\ UNCHANGED <<calls, be, meta_zones, io_zones, zbd, migrate_zone_mtx_, opn>>

\* line 867: z->Finish()
FtFinish(t) ==
  /\ pc[t] = "ft_finish"
  /\ \E ok \in BackendFinish :
       IF ok THEN /\ zone' = [zone EXCEPT ![loc[t].cur] = ZFinish(@)]
                  /\ Goto(t, "ft_rel2")
             ELSE /\ Goto(t, "ft_relfail")
                  /\ UNCHANGED zone
  /\ UNCHANGED <<calls, be, meta_zones, io_zones, zbd, migrate_zone_mtx_, opn, loc, acq>>

\* lines 868-872: z->Release() and the return of the finish status
FtReleaseFail(t) ==
  /\ pc[t] = "ft_relfail"
  /\ IF CanRelease(loc[t].cur) THEN ReleaseZ(t, loc[t].cur)
     ELSE UNCHANGED <<zone, acq>>
  /\ Return(t, "IOError", NoZone)
  /\ UNCHANGED <<calls, be, meta_zones, io_zones, zbd, migrate_zone_mtx_, opn>>

\* lines 873-874: CheckRelease of the finished zone
FtRelease2(t) ==
  /\ pc[t] = "ft_rel2"
  /\ IF ~CanRelease(loc[t].cur)
       THEN Return(t, "Corruption", NoZone) /\ UNCHANGED <<zone, acq>>
       ELSE ReleaseZ(t, loc[t].cur) /\ Goto(t, "ft_put") /\ UNCHANGED loc
  /\ UNCHANGED <<calls, be, meta_zones, io_zones, zbd, migrate_zone_mtx_, opn>>

\* line 875: PutActiveIOZoneToken
FtPut(t) ==
  /\ pc[t] = "ft_put"
  /\ zbd' = PutActive(zbd)
  /\ Goto(t, "ft_scan")
  /\ SetLoc(t, [loc[t] EXCEPT !.i = @ + 1, !.cur = NoZone])
  /\ UNCHANGED <<calls, be, zone, meta_zones, io_zones, migrate_zone_mtx_, opn, acq>>

\* lines 877-878: CheckRelease of a zone that is not finished
FtRelease(t) ==
  /\ pc[t] = "ft_rel"
  /\ IF ~CanRelease(loc[t].cur)
       THEN Return(t, "Corruption", NoZone) /\ UNCHANGED <<zone, acq>>
       ELSE /\ ReleaseZ(t, loc[t].cur)
            /\ Goto(t, "ft_scan")
            /\ SetLoc(t, [loc[t] EXCEPT !.i = @ + 1, !.cur = NoZone])
  /\ UNCHANGED <<calls, be, meta_zones, io_zones, zbd, migrate_zone_mtx_, opn>>

ApplyFinishThreshold(t) ==
  FtScan(t) \/ FtFinish(t) \/ FtReleaseFail(t) \/ FtRelease2(t) \/ FtPut(t)
  \/ FtRelease(t)

(* --------------------------------------------------- GetBestOpenZoneMatch *)
\* lines 941-942: the zone can take the request
IsCandidate(z, min_capacity) ==
  zone[z].used_capacity_ > 0 /\ ~IsFull(z) /\ zone[z].capacity_ >= min_capacity

\* only the first zone that can take the request is ever taken
BetterMatchFirst(diff, best_diff) ==
  best_diff = LIFETIME_DIFF_NOT_GOOD /\ diff <= best_diff
\* line 944: the zone replaces the best one found so far
BetterMatch(diff, best_diff) == diff <= best_diff

\* where GetBestOpenZoneMatch returns to
BmExit(t) == IF loc[t].op = "TakeMigrateZone" THEN "tm_done" ELSE "al_match"

\* the caller's handling of a status that is not OK (lines 1158-1161, 1114-1118)
BmFail(t, st) ==
  /\ Return(t, st, NoZone)
  /\ IF loc[t].op = "TakeMigrateZone"
       THEN /\ zbd' = [zbd EXCEPT !.migrating_ = FALSE]
            /\ migrate_zone_mtx_' = 0
       ELSE /\ zbd' = PutOpen(zbd)
            /\ UNCHANGED migrate_zone_mtx_

\* lines 939-944, 953-955, 959: loop head, Acquire and the tests of the zone
BmScan(t) ==
  /\ pc[t] = "bm_scan"
  /\ LET l == loc[t] IN
     IF l.i > Len(io_zones)
       THEN Goto(t, BmExit(t)) /\ UNCHANGED <<loc, zone, acq>>
     ELSE LET z == io_zones[l.i] IN
       IF ~CanAcquire(z)
         THEN SetLoc(t, [l EXCEPT !.i = @ + 1]) /\ UNCHANGED <<pc, zone, acq>>
         ELSE /\ AcquireZ(t, z)
              /\ IF IsCandidate(z, l.minc)
                    /\ BetterMatch(GetLifeTimeDiff(zone[z].lifetime_, l.hint), l.bd)
                   THEN IF l.az # NoZone
                          THEN Goto(t, "bm_relprev")
                               /\ SetLoc(t, [l EXCEPT !.cur = z])
                          ELSE UNCHANGED pc
                               /\ SetLoc(t, [l EXCEPT
                                    !.az = z, !.i = @ + 1,
                                    !.bd = GetLifeTimeDiff(zone[z].lifetime_, l.hint)])
                   ELSE Goto(t, "bm_rel") /\ SetLoc(t, [l EXCEPT !.cur = z])
  /\ UNCHANGED <<calls, be, meta_zones, io_zones, zbd, migrate_zone_mtx_, opn>>

\* lines 945-954: CheckRelease of the previous best zone, the new one kept
BmReleasePrev(t) ==
  /\ pc[t] = "bm_relprev"
  /\ LET l == loc[t] IN
     IF ~CanRelease(l.az)
       THEN /\ IF CanRelease(l.cur) THEN ReleaseZ(t, l.cur)
               ELSE UNCHANGED <<zone, acq>>
            /\ BmFail(t, "Corruption")
       ELSE /\ ReleaseZ(t, l.az)
            /\ Goto(t, "bm_scan")
            /\ SetLoc(t, [l EXCEPT
                 !.az = l.cur, !.cur = NoZone, !.i = @ + 1,
                 !.bd = GetLifeTimeDiff(zone[l.cur].lifetime_, l.hint)])
            /\ UNCHANGED <<zbd, migrate_zone_mtx_>>
  /\ UNCHANGED <<calls, be, meta_zones, io_zones, opn>>

\* lines 956-957, 960-961: CheckRelease of a zone that is not kept
BmRelease(t) ==
  /\ pc[t] = "bm_rel"
  /\ IF ~CanRelease(loc[t].cur)
       THEN BmFail(t, "Corruption") /\ UNCHANGED <<zone, acq>>
       ELSE /\ ReleaseZ(t, loc[t].cur)
            /\ Goto(t, "bm_scan")
            /\ SetLoc(t, [loc[t] EXCEPT !.i = @ + 1, !.cur = NoZone])
            /\ UNCHANGED <<zbd, migrate_zone_mtx_>>
  /\ UNCHANGED <<calls, be, meta_zones, io_zones, opn>>

GetBestOpenZoneMatch(t) == BmScan(t) \/ BmReleasePrev(t) \/ BmRelease(t)

(* --------------------------------------------------- FinishCheapestIOZone *)
\* the first zone found stays the victim
CheaperVictimNever(z, victim) == FALSE
\* line 900: the zone z replaces the victim chosen so far
CheaperVictim(z, victim) == zone[victim].capacity_ > zone[z].capacity_

\* lines 890-901, 905, 912-916: loop head, Acquire and the tests of the zone
FcScan(t) ==
  /\ pc[t] = "fc_scan"
  /\ LET l == loc[t] IN
     IF l.i > Len(io_zones)
       THEN /\ IF l.victim = NoZone
                 THEN Goto(t, "al_ensure") /\ SetLoc(t, [l EXCEPT !.i = 1])
                 ELSE Goto(t, "fc_finish") /\ UNCHANGED loc
            /\ UNCHANGED <<zone, acq>>
     ELSE LET z == io_zones[l.i] IN
       IF ~CanAcquire(z)
         THEN SetLoc(t, [l EXCEPT !.i = @ + 1]) /\ UNCHANGED <<pc, zone, acq>>
         ELSE /\ AcquireZ(t, z)
              /\ IF IsEmpty(z) \/ IsFull(z)
                   THEN Goto(t, "fc_rel") /\ SetLoc(t, [l EXCEPT !.cur = z])
                 ELSE IF l.victim = NoZone
                   THEN UNCHANGED pc
                        /\ SetLoc(t, [l EXCEPT !.victim = z, !.i = @ + 1])
                 ELSE IF CheaperVictim(z, l.victim)
                   THEN Goto(t, "fc_relvictim") /\ SetLoc(t, [l EXCEPT !.cur = z])
                   ELSE Goto(t, "fc_rel") /\ SetLoc(t, [l EXCEPT !.cur = z])
  /\ UNCHANGED <<calls, be, meta_zones, io_zones, zbd, migrate_zone_mtx_, opn>>

\* the caller's handling of a status of FinishCheapestIOZone that is not OK
\* (lines 1193-1196)
FcFail(t, st) == Return(t, st, NoZone) /\ zbd' = PutOpen(zbd)

\* lines 902-904: CheckRelease of the previous victim, the new one kept
FcReleaseVictim(t) ==
  /\ pc[t] = "fc_relvictim"
  /\ LET l == loc[t] IN
     IF ~CanRelease(l.victim)
       THEN FcFail(t, "Corruption") /\ UNCHANGED <<zone, acq>>
       ELSE /\ ReleaseZ(t, l.victim)
            /\ Goto(t, "fc_scan")
            /\ SetLoc(t, [l EXCEPT !.victim = l.cur, !.cur = NoZone, !.i = @ + 1])
            /\ UNCHANGED zbd
  /\ UNCHANGED <<calls, be, meta_zones, io_zones, migrate_zone_mtx_, opn>>

\* lines 893-895, 906-907: CheckRelease of a zone that is not the victim
FcRelease(t) ==
  /\ pc[t] = "fc_rel"
  /\ IF ~CanRelease(loc[t].cur)
       THEN FcFail(t, "Corruption") /\ UNCHANGED <<zone, acq>>
       ELSE /\ ReleaseZ(t, loc[t].cur)
            /\ Goto(t, "fc_scan")
            /\ SetLoc(t, [loc[t] EXCEPT !.i = @ + 1, !.cur = NoZone])
            /\ UNCHANGED zbd
  /\ UNCHANGED <<calls, be, meta_zones, io_zones, migrate_zone_mtx_, opn>>

\* line 918: finish_victim->Finish()
FcFinish(t) ==
  /\ pc[t] = "fc_finish"
  /\ \E ok \in BackendFinish :
       IF ok THEN /\ zone' = [zone EXCEPT ![loc[t].victim] = ZFinish(@)]
                  /\ SetLoc(t, [loc[t] EXCEPT !.st = "OK"])
             ELSE /\ SetLoc(t, [loc[t] EXCEPT !.st = "IOError"])
                  /\ UNCHANGED zone
  /\ Goto(t, "fc_rel2")
  /\ UNCHANGED <<calls, be, meta_zones, io_zones, zbd, migrate_zone_mtx_, opn, acq>>

\* line 919: CheckRelease of the victim
FcRelease2(t) ==
  /\ pc[t] = "fc_rel2"
  /\ LET l == loc[t] IN
     IF CanRelease(l.victim)
       THEN /\ ReleaseZ(t, l.victim)
            /\ Goto(t, "fc_put")
            /\ SetLoc(t, [l EXCEPT !.victim = NoZone])
       ELSE /\ Goto(t, "fc_put")
            /\ SetLoc(t, [l EXCEPT !.victim = NoZone, !.rel = "Corruption"])
            /\ UNCHANGED <<zone, acq>>
  /\ UNCHANGED <<calls, be, meta_zones, io_zones, zbd, migrate_zone_mtx_, opn>>

\* lines 921-929: PutActiveIOZoneToken if the finish succeeded, then the status
FcPut(t) ==
  /\ pc[t] = "fc_put"
  /\ LET l == loc[t]
         d == IF l.st = "OK" THEN PutActive(zbd) ELSE zbd
     IN IF l.rel # "OK"
          THEN Return(t, l.rel, NoZone) /\ zbd' = PutOpen(d)
        ELSE IF l.st # "OK"
          THEN Return(t, l.st, NoZone) /\ zbd' = PutOpen(d)
        ELSE /\ zbd' = d
             /\ Goto(t, "al_ensure")
             /\ SetLoc(t, [l EXCEPT !.i = 1])
  /\ UNCHANGED <<calls, be, zone, meta_zones, io_zones, migrate_zone_mtx_, opn, acq>>

FinishCheapestIOZone(t) ==
  FcScan(t) \/ FcReleaseVictim(t) \/ FcRelease(t) \/ FcFinish(t)
  \/ FcRelease2(t) \/ FcPut(t)

(* ------------------------------------------------------ AllocateEmptyZone *)
\* the zone reset least often is taken whatever the lifetime
BetterEmptyLowest(z, chosen, file_lifetime) ==
  chosen = NoZone \/ zone[z].reset_count_ < zone[chosen].reset_count_
\* lines 997-998 and 1022-1023: the empty zone z replaces the one chosen so far
BetterEmpty(z, chosen, file_lifetime) ==
  \/ chosen = NoZone
  \/ IF file_lifetime < WLTH_SHORT
       THEN zone[z].reset_count_ > zone[chosen].reset_count_
       ELSE zone[z].reset_count_ < zone[chosen].reset_count_

\* lines 1033-1035: the scan stops at the zone just chosen
EmptyBreak(z, file_lifetime) ==
  file_lifetime >= WLTH_SHORT /\ zone[z].reset_count_ = 0

\* lines 994-998, 1007-1013 and 1019-1023, 1032-1041
EzScan(t) ==
  /\ pc[t] = "ez_scan"
  /\ LET l == loc[t] IN
     IF l.i > Len(io_zones)
       THEN Goto(t, "al_new") /\ UNCHANGED <<loc, zone, acq>>
     ELSE LET z == io_zones[l.i] IN
       IF ~CanAcquire(z)
         THEN SetLoc(t, [l EXCEPT !.i = @ + 1]) /\ UNCHANGED <<pc, zone, acq>>
         ELSE /\ AcquireZ(t, z)
              /\ IF IsEmpty(z) /\ BetterEmpty(z, l.az, l.hint)
                   THEN IF l.az # NoZone
                          THEN Goto(t, "ez_relprev")
                               /\ SetLoc(t, [l EXCEPT !.cur = z])
                          ELSE /\ SetLoc(t, [l EXCEPT !.az = z, !.i = @ + 1])
                               /\ IF EmptyBreak(z, l.hint) THEN Goto(t, "al_new")
                                  ELSE UNCHANGED pc
                   ELSE Goto(t, "ez_rel") /\ SetLoc(t, [l EXCEPT !.cur = z])
  /\ UNCHANGED <<calls, be, meta_zones, io_zones, zbd, migrate_zone_mtx_, opn>>

\* the caller's handling of a status of AllocateEmptyZone that is not OK
\* (lines 1201-1205)
EzFail(t, st) == Return(t, st, NoZone) /\ zbd' = PutOpen(PutActive(zbd))

\* lines 999-1007 and 1024-1035: CheckRelease of the zone chosen before
EzReleasePrev(t) ==
  /\ pc[t] = "ez_relprev"
  /\ LET l == loc[t] IN
     IF ~CanRelease(l.az)
       THEN /\ IF CanRelease(l.cur) THEN ReleaseZ(t, l.cur)
               ELSE UNCHANGED <<zone, acq>>
            /\ EzFail(t, "Corruption")
       ELSE /\ ReleaseZ(t, l.az)
            /\ SetLoc(t, [l EXCEPT !.az = l.cur, !.cur = NoZone, !.i = @ + 1])
            /\ IF EmptyBreak(l.cur, l.hint) THEN Goto(t, "al_new")
               ELSE Goto(t, "ez_scan")
            /\ UNCHANGED zbd
  /\ UNCHANGED <<calls, be, meta_zones, io_zones, migrate_zone_mtx_, opn>>

\* lines 1009-1014 and 1037-1042: CheckRelease of a zone that is not chosen
EzRelease(t) ==
  /\ pc[t] = "ez_rel"
  /\ IF ~CanRelease(loc[t].cur)
       THEN EzFail(t, "Corruption") /\ UNCHANGED <<zone, acq>>
       ELSE /\ ReleaseZ(t, loc[t].cur)
            /\ Goto(t, "ez_scan")
            /\ SetLoc(t, [loc[t] EXCEPT !.i = @ + 1, !.cur = NoZone])
            /\ UNCHANGED zbd
  /\ UNCHANGED <<calls, be, meta_zones, io_zones, migrate_zone_mtx_, opn>>

AllocateEmptyZone(t) == EzScan(t) \/ EzReleasePrev(t) \/ EzRelease(t)

(* --------------------------------------------------------- AllocateIOZone *)
CallAllocateIOZone(t, file_lifetime, wal) ==
  /\ Call(t, "AllocateIOZone", file_lifetime, wal, 0, "al_start")
  /\ UNCHANGED <<be, zone, meta_zones, io_zones, zbd, migrate_zone_mtx_, opn, acq>>

\* lines 1141-1152: the deferred status, then the finish threshold unless WAL
AlStart(t) ==
  /\ pc[t] = "al_start"
  /\ IF GetZoneDeferredStatus # "OK"
       THEN Return(t, GetZoneDeferredStatus, NoZone)
     ELSE IF ~loc[t].wal
       THEN Goto(t, "ft_scan") /\ UNCHANGED loc
       ELSE Goto(t, "al_wait") /\ UNCHANGED loc
  /\ UNCHANGED <<calls, be, zone, meta_zones, io_zones, zbd, migrate_zone_mtx_, opn, acq>>

\* line 1154: WaitForOpenIOZoneToken(io_type == IOType::kWAL)
AlWait(t) ==
  /\ pc[t] = "al_wait"
  /\ OpenTokenFree(loc[t].wal)
  /\ zbd' = TakeOpen(zbd)
  /\ Goto(t, "bm_scan")
  /\ SetLoc(t, [loc[t] EXCEPT !.i = 1])
  /\ UNCHANGED <<calls, be, zone, meta_zones, io_zones, migrate_zone_mtx_, opn, acq>>

\* a match without a token is never kept
KeepsMatchNever(got_token, best_diff) == FALSE
\* lines 1172-1173: the open zone found is kept although no token was got
KeepsMatch(got_token, best_diff) ==
  ~got_token /\ best_diff = LIFETIME_DIFF_COULD_BE_WORSE

\* lines 1165-1177, 1189: the active token and what becomes of the match
AlMatch(t) ==
  /\ pc[t] = "al_match"
  /\ LET l == loc[t] IN
     IF l.bd >= LIFETIME_DIFF_COULD_BE_WORSE
       THEN LET got == ActiveTokenFree IN
            /\ zbd' = IF got THEN TakeActive(zbd) ELSE zbd
            /\ SetLoc(t, [l EXCEPT !.got = got, !.i = 1])
            /\ IF l.az # NoZone
                 THEN IF KeepsMatch(got, l.bd) THEN Goto(t, "al_fin")
                      ELSE Goto(t, "al_relaz")
                 ELSE Goto(t, "al_ensure")
       ELSE Goto(t, "al_fin") /\ UNCHANGED <<zbd, loc>>
  /\ UNCHANGED <<calls, be, zone, meta_zones, io_zones, migrate_zone_mtx_, opn, acq>>

\* lines 1178-1184: CheckRelease of the match that is not kept
AlReleaseMatch(t) ==
  /\ pc[t] = "al_relaz"
  /\ LET l == loc[t] IN
     IF ~CanRelease(l.az)
       THEN /\ Return(t, "Corruption", NoZone)
            /\ zbd' = IF l.got THEN PutActive(PutOpen(zbd)) ELSE PutOpen(zbd)
            /\ UNCHANGED <<zone, acq>>
       ELSE /\ ReleaseZ(t, l.az)
            /\ Goto(t, "al_ensure")
            /\ SetLoc(t, [l EXCEPT !.az = NoZone])
            /\ UNCHANGED zbd
  /\ UNCHANGED <<calls, be, meta_zones, io_zones, migrate_zone_mtx_, opn>>

\* line 1191: the loop test; FinishCheapestIOZone is entered when it is true
AlEnsure(t) ==
  /\ pc[t] = "al_ensure"
  /\ LET l == loc[t] IN
     IF l.got \/ ActiveTokenFree
       THEN /\ zbd' = IF l.got THEN zbd ELSE TakeActive(zbd)
            /\ Goto(t, "ez_scan")
            /\ SetLoc(t, [l EXCEPT !.i = 1])
       ELSE /\ Goto(t, "fc_scan")
            /\ SetLoc(t, [l EXCEPT !.i = 1, !.victim = NoZone])
            /\ UNCHANGED zbd
  /\ UNCHANGED <<calls, be, zone, meta_zones, io_zones, migrate_zone_mtx_, opn, acq>>

\* lines 1207-1213: the new zone takes the file's lifetime, or the active token
\* goes back
AlNew(t) ==
  /\ pc[t] = "al_new"
  /\ LET l == loc[t] IN
     IF l.az # NoZone
       THEN /\ zone' = [zone EXCEPT ![l.az].lifetime_ = l.hint]
            /\ SetLoc(t, [l EXCEPT !.newz = TRUE])
            /\ UNCHANGED zbd
       ELSE /\ zbd' = PutActive(zbd)
            /\ UNCHANGED <<zone, loc>>
  /\ Goto(t, "al_fin")
  /\ UNCHANGED <<calls, be, meta_zones, io_zones, migrate_zone_mtx_, opn, acq>>

\* lines 1217-1236: the zone is handed out, or the open token goes back
AlFinish(t) ==
  /\ pc[t] = "al_fin"
  /\ zbd' = IF loc[t].az # NoZone THEN zbd ELSE PutOpen(zbd)
  /\ Return(t, "OK", loc[t].az)
  /\ UNCHANGED <<calls, be, zone, meta_zones, io_zones, migrate_zone_mtx_, opn, acq>>

AllocateIOZone(t) ==
  \/ AlStart(t) \/ ApplyFinishThreshold(t) \/ AlWait(t)
  \/ GetBestOpenZoneMatch(t) \/ AlMatch(t) \/ AlReleaseMatch(t) \/ AlEnsure(t)
  \/ FinishCheapestIOZone(t) \/ AllocateEmptyZone(t) \/ AlNew(t) \/ AlFinish(t)

(* ------------------------------------------------------ Zone reclaimable *)
\* Zone::GetZoneReclaimableSpace
GetZoneReclaimableSpace(z) ==
  IF IsFull(z) THEN zone[z].max_capacity_ - zone[z].used_capacity_
  ELSE zone[z].wp_ - zone[z].start_ - zone[z].used_capacity_

(* -------------------------------------------------------- TakeMigrateZone *)
\* migrating_ left set whatever the outcome
MigratingAfterTakeStuck(ok, out) == TRUE
\* the value of migrating_ when TakeMigrateZone returns (lines 1112-1116)
MigratingAfterTake(ok, out) == ok /\ out # NoZone

\* migrate_resource_.wait(lock, [this] { return !migrating_; }) by thread t,
\* the lock just taken: the thread blocks and gives up the lock while
\* migrating_ is set, else it goes on with the lock and sets migrating_
\* (lines 1104-1107 and 648-651); zbd.migrate_resource_ holds the blocked
\* threads that no notify_one has picked yet
MigrateWait(t) ==
  IF zbd.migrating_
    THEN /\ zbd' = [zbd EXCEPT !.migrate_resource_ = @ \cup {t}]
         /\ UNCHANGED migrate_zone_mtx_
    ELSE /\ zbd' = [zbd EXCEPT !.migrating_ = TRUE]
         /\ migrate_zone_mtx_' = t

\* where a thread that got the migration slot goes on
AfterMigrateWait(op) == IF op = "TakeMigrateZone" THEN "bm_scan" ELSE "gm_wait"

\* lines 1104-1109: the lock, the wait for !migrating_, migrating_ = true
TmLock(t, file_lifetime, min_capacity) ==
  /\ migrate_zone_mtx_ = 0
  /\ Call(t, "TakeMigrateZone", file_lifetime, FALSE, min_capacity,
          IF zbd.migrating_ THEN "mig_wait"
          ELSE AfterMigrateWait("TakeMigrateZone"))
  /\ MigrateWait(t)
  /\ UNCHANGED <<be, zone, meta_zones, io_zones, opn, acq>>

\* a thread picked by notify_one takes the lock again and tests migrating_
MigrateWake(t) ==
  /\ pc[t] = "mig_wait"
  /\ t \notin zbd.migrate_resource_
  /\ migrate_zone_mtx_ = 0
  /\ MigrateWait(t)
  /\ IF zbd.migrating_ THEN UNCHANGED pc
     ELSE Goto(t, AfterMigrateWait(loc[t].op))
  /\ UNCHANGED <<calls, be, zone, meta_zones, io_zones, opn, loc, acq>>

\* lines 1112-1118: the result of the match, the lock released on return
TmDone(t) ==
  /\ pc[t] = "tm_done"
  /\ zbd' = [zbd EXCEPT !.migrating_ = MigratingAfterTake(TRUE, loc[t].az)]
  /\ migrate_zone_mtx_' = 0
  /\ Return(t, "OK", loc[t].az)
  /\ UNCHANGED <<calls, be, zone, meta_zones, io_zones, opn, acq>>

(* ----------------------------------------------------- ReleaseMigrateZone *)
\* migrate_resource_.notify_one(): the blocked threads that are left, one of
\* them picked if there is any
NotifyOne(waiters) ==
  IF waiters = {} THEN {{}} ELSE {waiters \ {w} : w \in waiters}

\* lines 1087-1099, for the zone the caller holds
ReleaseMigrateZone(t) ==
  /\ Holding(t)
  /\ loc[t].op \in {"TakeMigrateZone", "GetMigrateTargetZone"}
  /\ migrate_zone_mtx_ = 0
  /\ \E left \in NotifyOne(zbd.migrate_resource_) :
       zbd' = [zbd EXCEPT !.migrating_ = FALSE, !.migrate_resource_ = left]
  /\ IF CanRelease(loc[t].out)
       THEN ReleaseZ(t, loc[t].out)
            /\ ReturnAs(t, "ReleaseMigrateZone", "OK", NoZone)
       ELSE ReturnAs(t, "ReleaseMigrateZone", "Corruption", NoZone)
            /\ UNCHANGED <<zone, acq>>
  /\ UNCHANGED <<calls, be, meta_zones, io_zones, migrate_zone_mtx_, opn>>

(* ---------------------------------------------------- GetMigrateTargetZone *)
\* lines 648-651: the lock, the wait for !migrating_, migrating_ = true
GmLock(t, file_lifetime, min_capacity) ==
  /\ migrate_zone_mtx_ = 0
  /\ Call(t, "GetMigrateTargetZone", file_lifetime, TRUE, min_capacity,
          IF zbd.migrating_ THEN "mig_wait"
          ELSE AfterMigrateWait("GetMigrateTargetZone"))
  /\ MigrateWait(t)
  /\ UNCHANGED <<be, zone, meta_zones, io_zones, opn, acq>>

\* the open and active tokens the call has taken so far, the ones of the step
\* being made added (a history value, not a field of the code)
TokensOf(l) ==
  <<l.tok[1] + zbd'.open_io_zones_ - zbd.open_io_zones_,
    l.tok[2] + zbd'.active_io_zones_ - zbd.active_io_zones_>>

\* line 657: WaitForOpenIOZoneToken(true)
GmWait(t) ==
  /\ pc[t] = "gm_wait"
  /\ OpenTokenFree(TRUE)
  /\ zbd' = TakeOpen(zbd)
  /\ Goto(t, "g1_scan")
  /\ SetLoc(t, [loc[t] EXCEPT !.i = 1, !.tok = TokensOf(loc[t])])
  /\ UNCHANGED <<calls, be, zone, meta_zones, io_zones, migrate_zone_mtx_, opn, acq>>

\* the last of the zones with the highest reset count is taken
BetterEmptyTargetLast(z, target) ==
  target = NoZone \/ zone[z].reset_count_ >= zone[target].reset_count_
\* lines 661-662: the empty zone z replaces the target chosen so far
BetterEmptyTarget(z, target) ==
  target = NoZone \/ zone[z].reset_count_ > zone[target].reset_count_

\* a failed CheckRelease in the first scan (lines 665-673, 678-681, 685-688)
G1Fail(t) ==
  /\ Return(t, "Corruption", NoZone)
  /\ zbd' = PutOpen(zbd)
  /\ migrate_zone_mtx_' = 0

\* lines 658-662, 675-677, 683-684, 693: the scan for an empty zone
G1Scan(t) ==
  /\ pc[t] = "g1_scan"
  /\ LET l == loc[t] IN
     IF l.i > Len(io_zones)
       THEN /\ IF l.az # NoZone THEN Goto(t, "gm_token") ELSE Goto(t, "g2_scan")
            /\ SetLoc(t, [l EXCEPT !.i = 1])
            /\ UNCHANGED <<zone, acq>>
     ELSE LET z == io_zones[l.i] IN
       IF ~CanAcquire(z)
         THEN SetLoc(t, [l EXCEPT !.i = @ + 1]) /\ UNCHANGED <<pc, zone, acq>>
         ELSE /\ AcquireZ(t, z)
              /\ IF IsEmpty(z) /\ BetterEmptyTarget(z, l.az)
                   THEN IF l.az # NoZone
                          THEN Goto(t, "g1_relprev")
                               /\ SetLoc(t, [l EXCEPT !.cur = z])
                          ELSE UNCHANGED pc
                               /\ SetLoc(t, [l EXCEPT !.az = z, !.i = @ + 1])
                   ELSE Goto(t, "g1_rel") /\ SetLoc(t, [l EXCEPT !.cur = z])
  /\ UNCHANGED <<calls, be, meta_zones, io_zones, zbd, migrate_zone_mtx_, opn>>

\* lines 663-675: CheckRelease of the target chosen before
G1ReleasePrev(t) ==
  /\ pc[t] = "g1_relprev"
  /\ LET l == loc[t] IN
     IF ~CanRelease(l.az)
       THEN /\ IF CanRelease(l.cur) THEN ReleaseZ(t, l.cur)
               ELSE UNCHANGED <<zone, acq>>
            /\ G1Fail(t)
       ELSE /\ ReleaseZ(t, l.az)
            /\ Goto(t, "g1_scan")
            /\ SetLoc(t, [l EXCEPT !.az = l.cur, !.cur = NoZone, !.i = @ + 1])
            /\ UNCHANGED <<zbd, migrate_zone_mtx_>>
  /\ UNCHANGED <<calls, be, meta_zones, io_zones, opn>>

\* lines 677-688: CheckRelease of a zone that is not chosen
G1Release(t) ==
  /\ pc[t] = "g1_rel"
  /\ IF ~CanRelease(loc[t].cur)
       THEN G1Fail(t) /\ UNCHANGED <<zone, acq>>
       ELSE /\ ReleaseZ(t, loc[t].cur)
            /\ Goto(t, "g1_scan")
            /\ SetLoc(t, [loc[t] EXCEPT !.i = @ + 1, !.cur = NoZone])
            /\ UNCHANGED <<zbd, migrate_zone_mtx_>>
  /\ UNCHANGED <<calls, be, meta_zones, io_zones, opn>>

\* lines 694-696: the active token for the empty target, the open token put
\* back when there is none
GmToken(t) ==
  /\ pc[t] = "gm_token"
  /\ IF ActiveTokenFree
       THEN zbd' = TakeActive(zbd) /\ Goto(t, "gm_life")
       ELSE zbd' = PutOpen(zbd) /\ Goto(t, "gm_reltarget")
  /\ SetLoc(t, [loc[t] EXCEPT !.tok = TokensOf(loc[t])])
  /\ UNCHANGED <<calls, be, zone, meta_zones, io_zones, migrate_zone_mtx_, opn, acq>>

\* lines 697-698: target_zone->Release(), target_zone = nullptr
GmReleaseTarget(t) ==
  /\ pc[t] = "gm_reltarget"
  /\ IF CanRelease(loc[t].az) THEN ReleaseZ(t, loc[t].az)
     ELSE UNCHANGED <<zone, acq>>
  /\ Goto(t, "g2_scan")
  /\ SetLoc(t, [loc[t] EXCEPT !.az = NoZone, !.i = 1])
  /\ UNCHANGED <<calls, be, meta_zones, io_zones, zbd, migrate_zone_mtx_, opn>>

\* line 701: target_zone->lifetime_ = file_lifetime
GmLifetime(t) ==
  /\ pc[t] = "gm_life"
  /\ zone' = [zone EXCEPT ![loc[t].az].lifetime_ = loc[t].hint]
  /\ Goto(t, "gm_end")
  /\ UNCHANGED <<calls, be, meta_zones, io_zones, zbd, migrate_zone_mtx_, opn, loc, acq>>

\* lines 710-712
ZoneScore(z) ==
  (zone[z].reset_count_ * GetZoneReclaimableSpace(z)) \div zone[z].max_capacity_

\* lines 713-716: the zone z scores better than the target chosen so far
BetterTarget(z, target, target_zone_score) ==
  \/ target = NoZone
  \/ ZoneScore(z) > target_zone_score
  \/ (ZoneScore(z) = target_zone_score
      /\ zone[z].reset_count_ > zone[target].reset_count_)

\* lines 706-718, 727-740: the scan for a partly written zone
G2Scan(t) ==
  /\ pc[t] = "g2_scan"
  /\ LET l == loc[t] IN
     IF l.i > Len(io_zones)
       THEN Goto(t, "gm_end") /\ UNCHANGED <<loc, zone, acq>>
     ELSE LET z == io_zones[l.i] IN
       IF ~CanAcquire(z)
         THEN SetLoc(t, [l EXCEPT !.i = @ + 1]) /\ UNCHANGED <<pc, zone, acq>>
         ELSE /\ AcquireZ(t, z)
              /\ IF /\ IsCandidate(z, l.minc)
                    /\ BetterTarget(z, l.az, l.score)
                    /\ GetLifeTimeDiff(zone[z].lifetime_, l.hint)
                         # LIFETIME_DIFF_NOT_GOOD
                   THEN IF l.az # NoZone
                          THEN Goto(t, "g2_relprev")
                               /\ SetLoc(t, [l EXCEPT !.cur = z])
                          ELSE UNCHANGED pc
                               /\ SetLoc(t, [l EXCEPT !.az = z, !.i = @ + 1,
                                                      !.score = ZoneScore(z)])
                   ELSE Goto(t, "g2_rel") /\ SetLoc(t, [l EXCEPT !.cur = z])
  /\ UNCHANGED <<calls, be, meta_zones, io_zones, zbd, migrate_zone_mtx_, opn>>

\* a failed CheckRelease in the second scan (lines 721-725, 731, 735, 739)
G2Fail(t) ==
  /\ Return(t, "Corruption", NoZone)
  /\ migrate_zone_mtx_' = 0

\* lines 719-728: CheckRelease of the target chosen before
G2ReleasePrev(t) ==
  /\ pc[t] = "g2_relprev"
  /\ LET l == loc[t] IN
     IF ~CanRelease(l.az)
       THEN /\ IF CanRelease(l.cur) THEN ReleaseZ(t, l.cur)
               ELSE UNCHANGED <<zone, acq>>
            /\ G2Fail(t)
       ELSE /\ ReleaseZ(t, l.az)
            /\ Goto(t, "g2_scan")
            /\ SetLoc(t, [l EXCEPT !.az = l.cur, !.cur = NoZone, !.i = @ + 1,
                                   !.score = ZoneScore(l.cur)])
            /\ UNCHANGED migrate_zone_mtx_
  /\ UNCHANGED <<calls, be, meta_zones, io_zones, zbd, opn>>

\* lines 729-740: CheckRelease of a zone that is not chosen
G2Release(t) ==
  /\ pc[t] = "g2_rel"
  /\ IF ~CanRelease(loc[t].cur)
       THEN G2Fail(t) /\ UNCHANGED <<zone, acq>>
       ELSE /\ ReleaseZ(t, loc[t].cur)
            /\ Goto(t, "g2_scan")
            /\ SetLoc(t, [loc[t] EXCEPT !.i = @ + 1, !.cur = NoZone])
            /\ UNCHANGED migrate_zone_mtx_
  /\ UNCHANGED <<calls, be, meta_zones, io_zones, zbd, opn>>

\* lines 745-752: the result, migrating_ cleared when there is no target
GmEnd(t) ==
  /\ pc[t] = "gm_end"
  /\ IF loc[t].az = NoZone
       THEN /\ zbd' = [zbd EXCEPT !.migrating_ = FALSE]
            /\ Return(t, "NotFound", NoZone)
       ELSE /\ Return(t, "OK", loc[t].az)
            /\ UNCHANGED zbd
  /\ migrate_zone_mtx_' = 0
  /\ UNCHANGED <<calls, be, zone, meta_zones, io_zones, opn, acq>>

GetMigrateTargetZone(t) ==
  \/ GmWait(t) \/ G1Scan(t) \/ G1ReleasePrev(t) \/ G1Release(t) \/ GmToken(t)
  \/ GmReleaseTarget(t) \/ GmLifetime(t) \/ G2Scan(t) \/ G2ReleasePrev(t)
  \/ G2Release(t) \/ GmEnd(t)

(* ------------------------------------------------ callers of the allocator *)
\* the backend's answers to a write of size bytes: the bytes written in all
\* before the loop of Zone::Append ends (less than size: an I/O error)
BackendWrite(size) == 0 .. size

NoCapacityNever(z, size) == FALSE
\* line 181: the zone has less capacity left than the append asks for
NoCapacity(z, size) == zone[z].capacity_ < size

\* Zone::Append(size) on the zone the caller holds, the backend writing w
\* bytes; the file layer counts the bytes written as live
ClientAppend(t, size, w) ==
  /\ Holding(t)
  /\ LET z == loc[t].out IN
     IF NoCapacity(z, size)
       THEN /\ SetLoc(t, [loc[t] EXCEPT !.st = "NoSpace"])
            /\ UNCHANGED zone
       ELSE /\ zone' = [zone EXCEPT ![z] =
                          [ZAppend(@, w) EXCEPT !.used_capacity_ = @ + w]]
            /\ SetLoc(t, [loc[t] EXCEPT !.st = IF w < size THEN "IOError" ELSE "OK"])
  /\ UNCHANGED <<calls, be, meta_zones, io_zones, zbd, migrate_zone_mtx_, opn, pc, acq>>

\* the file layer closes the zone AllocateIOZone handed out: Zone::Close and
\* the release of busy
ClientClose(t) ==
  /\ Holding(t)
  /\ loc[t].op = "AllocateIOZone"
  /\ CanRelease(loc[t].out)
  /\ ReleaseZ(t, loc[t].out)
  /\ Goto(t, "cl_put")
  /\ SetLoc(t, [DefaultLoc EXCEPT !.op = "Close", !.full = IsFull(loc[t].out)])
  /\ UNCHANGED <<calls, be, meta_zones, io_zones, zbd, migrate_zone_mtx_, opn>>

\* the tokens of the closed zone: the open one, the active one if it is full
ClientPut(t) ==
  /\ pc[t] = "cl_put"
  /\ zbd' = IF loc[t].full THEN PutActive(PutOpen(zbd)) ELSE PutOpen(zbd)
  /\ Goto(t, "idle")
  /\ SetLoc(t, DefaultLoc)
  /\ UNCHANGED <<calls, be, zone, meta_zones, io_zones, migrate_zone_mtx_, opn, acq>>

\* the metadata log releases the zone AllocateMetaZone handed out
ClientMetaRelease(t) ==
  /\ Holding(t)
  /\ loc[t].op = "AllocateMetaZone"
  /\ CanRelease(loc[t].out)
  /\ ReleaseZ(t, loc[t].out)
  /\ Goto(t, "idle")
  /\ SetLoc(t, DefaultLoc)
  /\ UNCHANGED <<calls, be, meta_zones, io_zones, zbd, migrate_zone_mtx_, opn>>

\* the file layer deletes the live data of a zone
DeleteData(z) ==
  /\ Opened
  /\ calls > 0
  /\ calls' = calls - 1
  /\ zone[z].used_capacity_ > 0
  /\ zone' = [zone EXCEPT ![z].used_capacity_ = 0]
  /\ UNCHANGED <<be, meta_zones, io_zones, zbd, migrate_zone_mtx_, opn, pc, loc, acq>>

(* ------------------------------------------------------------ the device *)
ZoneKinds == {"empty", "open", "closed", "full", "offline"}

\* the report of a sequential-write-required zone of capacity cap
Entry(kind, cap, zone_size) ==
  [swr |-> TRUE,
   offline |-> kind = "offline",
   active |-> kind \in {"open", "closed"},
   open |-> kind = "open",
   wp |-> CASE kind = "open" -> 1
            [] kind = "closed" -> zone_size - 1
            [] kind = "full" -> zone_size
            [] OTHER -> 0,
   max_capacity |-> cap,
   writable |-> kind \in {"empty", "open", "closed"}]

\* a device of nr zones: conventional zones, then the zones of kinds ks
Device(nr, zone_size, cap, max_active, max_open, ks) ==
  [nr_zones |-> nr, listed |-> nr, zone_size |-> zone_size,
   max_active |-> max_active, max_open |-> max_open, open_ok |-> TRUE,
   rep |-> [i \in (nr - Len(ks) + 1) .. nr |->
              Entry(ks[i - (nr - Len(ks))], cap, zone_size)]]

NrActive(d) == Cardinality({i \in DOMAIN d.rep : d.rep[i].active})
NrOpen(d) == Cardinality({i \in DOMAIN d.rep : d.rep[i].open})

\* the device keeps its own limits
DeviceOK(d) ==
  /\ d.max_active # 0 => NrActive(d) <= d.max_active
  /\ d.max_open # 0 => NrOpen(d) <= d.max_open

SeqsOf(S, n) == [1 .. n -> S]

SwrZones == {i \in DOMAIN be.rep : be.rep[i].swr}
IOZoneSet == {io_zones[k] : k \in 1 .. Len(io_zones)}
MetaZoneSet == {meta_zones[k] : k \in 1 .. Len(meta_zones)}
AllZones == IOZoneSet \cup MetaZoneSet

InitDevice(finish_threshold) ==
  [max_nr_active_io_zones_ |-> 0, max_nr_open_io_zones_ |-> 0,
   active_io_zones_ |-> 0, open_io_zones_ |-> 0, migrating_ |-> FALSE,
   migrate_resource_ |-> {}, wl_worker_cv_ |-> 0,
   zone_deferred_status_ |-> "OK", finish_threshold_ |-> finish_threshold,
   total_reset_count_ |-> 0, check_reset_count_ |-> 0, wl_trigger_count_ |-> 0,
   reset_ratio_threshold_ |-> 100, wl_worker_sleep_ |-> TRUE,
   idle_qps_write_threshold_ |-> IdleQpsWriteDefault,
   idle_qps_read_threshold_ |-> IdleQpsReadDefault,
   window_qps_write_max_ |-> 0, window_qps_read_max_ |-> 0,
   idle_qps_fail_count_ |-> 0, idle_qps_successive_count_ |-> 0]

\* the state after construction, on device d, before a run of n calls
InitOn(d, finish_threshold, readonly, exclusive, n) ==
  /\ be = d
  /\ zone = [i \in {j \in DOMAIN d.rep : d.rep[j].swr} |-> NullZone]
  /\ meta_zones = <<>>
  /\ io_zones = <<>>
  /\ zbd = InitDevice(finish_threshold)
  /\ migrate_zone_mtx_ = 0
  /\ opn = [pc |-> "start", i |-> 0, m |-> 0, status |-> "OK",
            readonly |-> readonly, exclusive |-> exclusive]
  /\ pc = [t \in Threads |-> "idle"]
  /\ loc = [t \in Threads |-> DefaultLoc]
  /\ acq = [t \in 0 .. NThreads |-> {}]
  /\ calls = n

(* ------------------------------------------- Spec: the concurrent allocator *)
MetaKinds ==
  [i \in 1 .. ZENFS_META_ZONES |->
     IF i <= ZENFS_META_ZONES - NMeta THEN "offline" ELSE "empty"]
Hints == {WLTH_SHORT}
Statuses == {"IOError"}
AppendSizes == {ZoneSize - 1}

\* the io zones past the first two are empty
MoreZones == [i \in 1 .. NIO - 2 |-> "empty"]

\* a run: the kinds of the first two io zones, the capacity of the zones, the
\* device limits, the finish threshold and the number of calls
Config(ks, cap, max_active, max_open, ft, n) ==
  [ks |-> ks, cap |-> cap, max_active |-> max_active, max_open |-> max_open,
   ft |-> ft, n |-> n]

Configs ==
  {Config(<<"open", "closed">>, ZoneSize, 3, 4, 0, MaxCalls - 1),
   Config(<<"empty", "open">>, ZoneSize, 4, 4, 0, MaxCalls),
   Config(<<"open", "empty">>, ZoneSize - 1, 3, 3, 100, MaxCalls - 1)}

\* the state after construction of run c
InitRun(c) ==
  InitOn(Device(ZENFS_MIN_ZONES, ZoneSize, c.cap, c.max_active, c.max_open,
                MetaKinds \o c.ks \o MoreZones),
         c.ft, FALSE, TRUE, c.n)

Init == \E c \in Configs : InitRun(c)

\* the steps of client thread t, its requests drawn from hints and sizes
Client(t, hints, sizes) ==
  \/ \E h \in hints, wal \in BOOLEAN : CallAllocateIOZone(t, h, wal)
  \/ AllocateIOZone(t)
  \/ CallAllocateMetaZone(t)
  \/ AllocateMetaZone(t)
  \/ CallResetUnusedIOZones(t)
  \/ ResetUnusedIOZones(t)
  \/ \E h \in hints, m \in {1} : TmLock(t, h, m)
  \/ TmDone(t)
  \/ \E h \in hints, m \in {1} : GmLock(t, h, m)
  \/ GetMigrateTargetZone(t)
  \/ ReleaseMigrateZone(t)
  \/ \E st \in Statuses : SetZoneDeferredStatus(t, st)
  \/ \E size \in sizes : \E w \in BackendWrite(size) : ClientAppend(t, size, w)
  \/ ClientClose(t)
  \/ ClientPut(t)
  \/ ClientMetaRelease(t)

Next ==
  \/ Open
  \/ \E t \in Threads : Client(t, Hints, AppendSizes)
  \/ \E t \in Threads : MigrateWake(t)
  \/ \E z \in AllZones : DeleteData(z)

Spec == Init /\ [][Next]_vars

(* ------------------------------------------------ SpecSeq: a single client *)
\* a single client never finds migrating_ set: it never blocks in MigrateWait
SeqHints == {WLTH_NOT_SET, WLTH_SHORT, WLTH_LONG}

\* the sizes of its appends: the empty one too
SeqSizes == {0} \cup AppendSizes

NextSeq ==
  \/ Open
  \/ Client(1, SeqHints, SeqSizes)
  \/ \E z \in AllZones : DeleteData(z)

\* its runs: those of Spec, one on two empty io zones and one with a finish
\* threshold that a written zone can be above
SeqConfigs ==
  Configs \cup {Config(<<"empty", "empty">>, ZoneSize, 3, 3, 0, MaxCalls - 1),
                Config(<<"open", "empty">>, ZoneSize, 3, 3, 67, MaxCalls - 1)}

InitSeq == \E c \in SeqConfigs : InitRun(c)

SpecSeq == InitSeq /\ [][NextSeq]_vars

(* --------------------------------------------------- SpecOpen: Open alone *)
DeviceLimits == 0 .. MaxLimit
\* the first ZENFS_META_ZONES zones: all usable, or the first ones offline
MetaPatterns == {[i \in 1 .. ZENFS_META_ZONES |-> "empty"], MetaKinds}
\* what goes wrong in the backend: nothing, its open, too few zones, the listing
Faults == {"none", "open", "few", "list"}
\* readonly and exclusive
OpenFlags == {<<FALSE, TRUE>>, <<TRUE, FALSE>>, <<FALSE, FALSE>>}

Faulty(d, fault) ==
  CASE fault = "open" -> [d EXCEPT !.open_ok = FALSE]
    [] fault = "few" -> [d EXCEPT !.nr_zones = ZENFS_MIN_ZONES - 1]
    [] fault = "list" -> [d EXCEPT !.listed = @ - 1]
    [] OTHER -> d

OpenDevices ==
  {d \in {Device(ZENFS_MIN_ZONES, ZoneSize, ZoneSize, a, o, mk \o ks) :
            a \in DeviceLimits, o \in DeviceLimits, mk \in MetaPatterns,
            ks \in SeqsOf(ZoneKinds, NIO)} : DeviceOK(d)}

InitOpen ==
  \E d \in OpenDevices, fault \in Faults, fl \in OpenFlags :
    /\ fault # "none" => d.max_active = 0 /\ d.max_open = 0
    /\ InitOn(Faulty(d, fault), 0, fl[1], fl[2], 0)

SpecOpen == InitOpen /\ [][Open]_vars

(* ------------------------------------------- SpecWL: zones reset in turn *)
\* the values of reset_ratio_threshold_ a device is configured with
WLThresholds == {20, 100}

\* the backend's answers to a reset of zone z in a run of resets
WlBackendReset(z) ==
  IF zbd.total_reset_count_ < MaxWLResets
    THEN {<<TRUE, FALSE, be.rep[z].max_capacity>>,
          <<FALSE, FALSE, be.rep[z].max_capacity>>}
    ELSE {<<FALSE, FALSE, be.rep[z].max_capacity>>}

\* Zone::Reset of a zone that holds no live data, by a caller that took the
\* zone's busy flag for it
ResetHeld(z) ==
  /\ Opened
  /\ CanAcquire(z)
  /\ ~IsUsed(z)
  /\ \E r \in WlBackendReset(z) : ResetZone(z, r)
  /\ UNCHANGED <<be, meta_zones, io_zones, migrate_zone_mtx_, opn, pc, loc, acq,
                 calls>>

InitWL ==
  \E thr \in WLThresholds :
    /\ be = Device(ZENFS_MIN_ZONES, ZoneSize, ZoneSize, 0, 0,
                   MetaKinds \o <<"open", "empty">> \o MoreZones)
    /\ zone = [i \in {j \in DOMAIN be.rep : be.rep[j].swr} |-> NullZone]
    /\ meta_zones = <<>>
    /\ io_zones = <<>>
    /\ zbd = [InitDevice(0) EXCEPT !.reset_ratio_threshold_ = thr]
    /\ migrate_zone_mtx_ = 0
    /\ opn = [pc |-> "start", i |-> 0, m |-> 0, status |-> "OK",
              readonly |-> FALSE, exclusive |-> TRUE]
    /\ pc = [t \in Threads |-> "idle"]
    /\ loc = [t \in Threads |-> DefaultLoc]
    /\ acq = [t \in 0 .. NThreads |-> {}]
    /\ calls = 0

NextWL ==
  \/ Open
  \/ \E z \in AllZones : ResetHeld(z)

SpecWL == InitWL /\ [][NextWL]_vars

(* ------------------------------- SpecMig: one client and the migrators *)
\* the client and the threads that take and release migration zones
MigThreads == 1 .. NThreads + 1

\* the steps of a thread that migrates data into zones already written
Migrator(t) ==
  \/ \E h \in Hints, m \in {1} : TmLock(t, h, m)
  \/ GetBestOpenZoneMatch(t)
  \/ TmDone(t)
  \/ ReleaseMigrateZone(t)

InitMig ==
  \E c \in Configs :
    /\ be = Device(ZENFS_MIN_ZONES, ZoneSize, c.cap, c.max_active, c.max_open,
                   MetaKinds \o c.ks \o MoreZones)
    /\ zone = [i \in {j \in DOMAIN be.rep : be.rep[j].swr} |-> NullZone]
    /\ meta_zones = <<>>
    /\ io_zones = <<>>
    /\ zbd = InitDevice(c.ft)
    /\ migrate_zone_mtx_ = 0
    /\ opn = [pc |-> "start", i |-> 0, m |-> 0, status |-> "OK",
              readonly |-> FALSE, exclusive |-> TRUE]
    /\ pc = [t \in MigThreads |-> "idle"]
    /\ loc = [t \in MigThreads |-> DefaultLoc]
    /\ acq = [t \in {0} \cup MigThreads |-> {}]
    /\ calls = c.n

NextMig ==
  \/ Open
  \/ Client(1, Hints, AppendSizes)
  \/ \E t \in MigThreads \ {1} : Migrator(t)
  \/ \E t \in MigThreads : MigrateWake(t)
  \/ \E z \in AllZones : DeleteData(z)

SpecMig == InitMig /\ [][NextMig]_vars

(* ------------------------------------- SpecQps: the idle detector alone *)
\* the write and read counts of a window of 100 ms
WriteSamples == {0, 75, 76, 80, 90}
ReadSamples == {0, 4999, 5000, 5200, 5400}

\* lines 353-361 and 363-371: the window maximum after samples q1 and q2
WindowMax(q1, q2, window_max) ==
  IF q2 > q1 THEN (IF q2 > window_max THEN q2 ELSE window_max)
  ELSE (IF q1 > window_max THEN q1 ELSE window_max)

\* lines 374-379: the threshold raised halfway to the window maximum
RaisedThreshold(threshold, window_max) ==
  IF window_max > threshold THEN (threshold + window_max) \div 2 ELSE threshold

\* both samples are below the threshold
BelowNever(q1, q2, threshold) == FALSE
\* lines 393, 394 and 407
Below(q1, q2, threshold) == q1 < threshold /\ q2 < threshold

\* lines 400 and 408, for q1 >= q2
FallsSharply(q1, q2, threshold) == 100 * (q1 - q2) > threshold * 5

\* lines 393-414: the verdict for the samples and the thresholds in force
QpsVerdict(w1, r1, w2, r2, wthr, rthr) ==
  IF Below(w1, w2, wthr)
    THEN IF Below(r1, r2, rthr) THEN 1
         ELSE IF r2 > r1 THEN 0
         ELSE IF FallsSharply(r1, r2, rthr) THEN 1
         ELSE 0
    ELSE IF w2 > w1 THEN 0
         ELSE IF Below(r1, r2, rthr) /\ FallsSharply(w1, w2, wthr) THEN 1
         ELSE 0

\* the device fields JudgeQpsTrend leaves for the samples (lines 353-391)
QpsDevice(d, w1, r1, w2, r2) ==
  LET wwin == WindowMax(w1, w2, d.window_qps_write_max_)
      rwin == WindowMax(r1, r2, d.window_qps_read_max_)
      raise == d.idle_qps_fail_count_ >= 5
      wthr == IF raise THEN RaisedThreshold(d.idle_qps_write_threshold_, wwin)
              ELSE d.idle_qps_write_threshold_
      rthr == IF raise THEN RaisedThreshold(d.idle_qps_read_threshold_, rwin)
              ELSE d.idle_qps_read_threshold_
      back == /\ wthr # IdleQpsWriteDefault \/ rthr # IdleQpsReadDefault
              /\ d.idle_qps_successive_count_ >= 5
  IN [d EXCEPT !.window_qps_write_max_ = IF raise THEN 0 ELSE wwin,
               !.window_qps_read_max_ = IF raise THEN 0 ELSE rwin,
               !.idle_qps_fail_count_ = IF raise THEN 0 ELSE @,
               !.idle_qps_write_threshold_ = IF back THEN IdleQpsWriteDefault ELSE wthr,
               !.idle_qps_read_threshold_ = IF back THEN IdleQpsReadDefault ELSE rthr,
               !.idle_qps_successive_count_ = IF back THEN 0 ELSE @]

\* JudgeQpsTrend by thread t, the meters reading w1, r1 and then w2, r2
JudgeQpsTrend(t, w1, r1, w2, r2) ==
  /\ Opened /\ pc[t] = "idle"
  /\ calls > 0
  /\ calls' = calls - 1
  /\ zbd' = QpsDevice(zbd, w1, r1, w2, r2)
  /\ pc' = [pc EXCEPT ![t] = "ret"]
  /\ SetLoc(t, [DefaultLoc EXCEPT
                  !.op = "JudgeQpsTrend", !.qps = <<w1, r1, w2, r2>>,
                  !.verdict = QpsVerdict(w1, r1, w2, r2,
                                         zbd'.idle_qps_write_threshold_,
                                         zbd'.idle_qps_read_threshold_)])
  /\ UNCHANGED <<be, zone, meta_zones, io_zones, migrate_zone_mtx_, opn, acq>>

\* the wear-leveling worker counts the verdicts in a row: the failures, and
\* the successes
CountVerdict(t) ==
  /\ pc[t] = "ret" /\ loc[t].op = "JudgeQpsTrend"
  /\ zbd' = IF loc[t].verdict = 1
              THEN [zbd EXCEPT !.idle_qps_successive_count_ = @ + 1,
                               !.idle_qps_fail_count_ = 0]
              ELSE [zbd EXCEPT !.idle_qps_fail_count_ = @ + 1,
                               !.idle_qps_successive_count_ = 0]
  /\ pc' = [pc EXCEPT ![t] = "idle"]
  /\ SetLoc(t, DefaultLoc)
  /\ UNCHANGED <<calls, be, zone, meta_zones, io_zones, migrate_zone_mtx_, opn, acq>>

InitQps == InitRun(Config(<<"open", "empty">>, ZoneSize, 3, 3, 0, MaxQpsCalls))

NextQps ==
  \/ Open
  \/ \E w1, w2 \in WriteSamples, r1, r2 \in ReadSamples :
       JudgeQpsTrend(1, w1, r1, w2, r2)
  \/ CountVerdict(1)

SpecQps == InitQps /\ [][NextQps]_vars

(* --------------------------- SpecTok: the waiters of the open token pool *)
\* two callers that can hold the open tokens and two that wait for one
TokThreads == 1 .. NThreads + 2

\* the threads blocked in zone_resources_.wait (line 816)
TokWaiters == {t \in DOMAIN pc : pc[t] = "tok_wait"}

\* WaitForOpenIOZoneToken(prioritized) is called by thread t (lines 801-815)
TokCall(t, prioritized) ==
  /\ Opened /\ pc[t] = "idle"
  /\ Goto(t, "tok_check")
  /\ SetLoc(t, [DefaultLoc EXCEPT !.op = "WaitForOpenIOZoneToken",
                                  !.wal = prioritized])
  /\ UNCHANGED <<calls, be, zone, meta_zones, io_zones, zbd, migrate_zone_mtx_, opn, acq>>

\* lines 816-823: the predicate of the wait, evaluated under zone_resources_mtx_
\* at the call and after every wakeup; the thread blocks when it is false
TokCheck(t) ==
  /\ pc[t] = "tok_check"
  /\ IF OpenTokenFree(loc[t].wal)
       THEN zbd' = TakeOpen(zbd) /\ Goto(t, "tok_held")
       ELSE UNCHANGED zbd /\ Goto(t, "tok_wait")
  /\ UNCHANGED <<calls, be, zone, meta_zones, io_zones, migrate_zone_mtx_, opn, loc, acq>>

\* line 816: a condition variable may wake a waiter that nobody notified
TokSpurious(t) ==
  /\ pc[t] = "tok_wait"
  /\ Goto(t, "tok_check")
  /\ UNCHANGED <<calls, be, zone, meta_zones, io_zones, zbd, migrate_zone_mtx_, opn, loc, acq>>

\* lines 840-843 of PutOpenIOZoneToken: open_io_zones_-- under the mutex
TokPut(t) ==
  /\ pc[t] = "tok_held"
  /\ zbd' = PutOpen(zbd)
  /\ Goto(t, "tok_notify")
  /\ UNCHANGED <<calls, be, zone, meta_zones, io_zones, migrate_zone_mtx_, opn, loc, acq>>

\* every waiter is woken
NotifiedAll == {TokWaiters}
\* line 844: zone_resources_.notify_one() wakes one of the waiters, if any
NotifiedOne == IF TokWaiters = {} THEN {{}} ELSE {{u} : u \in TokWaiters}

\* line 844 of PutOpenIOZoneToken
TokNotify(t) ==
  /\ pc[t] = "tok_notify"
  /\ \E woken \in NotifiedOne :
       pc' = [u \in DOMAIN pc |-> IF u = t THEN "idle"
                                  ELSE IF u \in woken THEN "tok_check"
                                  ELSE pc[u]]
  /\ SetLoc(t, DefaultLoc)
  /\ UNCHANGED <<calls, be, zone, meta_zones, io_zones, zbd, migrate_zone_mtx_, opn, acq>>

InitTok ==
  /\ be = Device(ZENFS_MIN_ZONES, ZoneSize, ZoneSize, 4, 4,
                 MetaKinds \o <<"open", "empty">> \o MoreZones)
  /\ zone = [i \in {j \in DOMAIN be.rep : be.rep[j].swr} |-> NullZone]
  /\ meta_zones = <<>>
  /\ io_zones = <<>>
  /\ zbd = InitDevice(0)
  /\ migrate_zone_mtx_ = 0
  /\ opn = [pc |-> "start", i |-> 0, m |-> 0, status |-> "OK",
            readonly |-> FALSE, exclusive |-> TRUE]
  /\ pc = [t \in TokThreads |-> "idle"]
  /\ loc = [t \in TokThreads |-> DefaultLoc]
  /\ acq = [t \in {0} \cup TokThreads |-> {}]
  /\ calls = 0

TokRun(t) == TokCheck(t) \/ TokNotify(t)

NextTok ==
  \/ Open
  \/ \E t \in TokThreads, prioritized \in BOOLEAN : TokCall(t, prioritized)
  \/ \E t \in TokThreads : TokCheck(t)
  \/ \E t \in TokThreads : TokSpurious(t)
  \/ \E t \in TokThreads : TokPut(t)
  \/ \E t \in TokThreads : TokNotify(t)

\* a thread that runs goes on: it evaluates the predicate it was woken for and
\* it notifies after its decrement; callers need not call or put, and no
\* waiter need be woken without a notification
SpecTok ==
  InitTok /\ [][NextTok]_vars /\ \A t \in TokThreads : WF_vars(TokRun(t))

(* ------------------------------- SpecReset: a client that resets its zone *)
\* Zone::Reset by the thread that holds the zone, on a zone without live
\* data, the backend answering r
ClientReset(t, r) ==
  /\ Holding(t)
  /\ ~IsUsed(loc[t].out)
  /\ calls > 0
  /\ calls' = calls - 1
  /\ ResetZone(loc[t].out, r)
  /\ SetLoc(t, [loc[t] EXCEPT !.st = IF r[1] THEN "OK" ELSE "IOError"])
  /\ UNCHANGED <<be, meta_zones, io_zones, migrate_zone_mtx_, opn, pc, acq>>

NextReset ==
  \/ NextSeq
  \/ Holding(1) /\ \E r \in BackendReset(loc[1].out) : ClientReset(1, r)

SpecReset == InitSeq /\ [][NextReset]_vars

(* --------------------------------------------- waiters of the migration slot *)
\* thread t is blocked in migrate_resource_.wait and no notify_one picked it
Blocked(t) == pc[t] = "mig_wait" /\ t \in zbd.migrate_resource_
\* thread t was picked by a notify_one and has not taken the lock again yet
Notified(t) == pc[t] = "mig_wait" /\ t \notin zbd.migrate_resource_

\* C11: no caller stays blocked in the wait for the migration slot while no
\* migration is in flight: whenever a thread is blocked, migrating_ is false
\* and no thread is inside a take, some blocked thread was notified and is
\* about to take the slot.
C11_WaitersWake ==
  (/\ \E t \in MigThreads : Blocked(t)
   /\ ~zbd.migrating_
   /\ migrate_zone_mtx_ = 0)
    => \E u \in MigThreads : Notified(u)

(* ------------------------------------------------------ token accounting *)
\* C1: once the device is open, open_io_zones_ never exceeds
\* max_nr_open_io_zones_ and active_io_zones_ never exceeds
\* max_nr_active_io_zones_, the state right after Open included.
C1_TokensWithinLimits ==
  Opened =>
    /\ LongLeqU(zbd.open_io_zones_, zbd.max_nr_open_io_zones_)
    /\ LongLeqU(zbd.active_io_zones_, zbd.max_nr_active_io_zones_)

(* ------------------------------------------------------------------ Open *)
\* C9, as stated: after a successful Open, open_io_zones_ = 0 and
\* active_io_zones_ = 0.
C9_OpenStartsAtZero ==
  Opened => zbd.open_io_zones_ = 0 /\ zbd.active_io_zones_ = 0

\* the io zones the backend reports active
ReportedActive == {z \in IOZoneSet : be.rep[z].active}

\* C9, amended: after a successful Open, open_io_zones_ = 0 and
\* active_io_zones_ is the number of io zones the backend reports active.
C9_OpenCountsActive ==
  Opened =>
    /\ zbd.open_io_zones_ = 0
    /\ zbd.active_io_zones_ = Cardinality(ReportedActive)

\* a device opened with an open zone, a closed zone and the meta zones usable
C9_Witness ==
  /\ Opened
  /\ \E y, z \in IOZoneSet :
       /\ be.rep[y].open
       /\ be.rep[z].active /\ ~be.rep[z].open
  /\ Len(meta_zones) = ZENFS_META_ZONES

\* C10: after a successful Open each io limit is nr_zones when the device
\* limit is 0 and the device limit minus 2 otherwise, in which case it is not
\* negative and smaller than the device limit; and the limit of the
\* non-prioritized open-token waiters is not larger than the one of the
\* prioritized waiters.
C10_IOLimits ==
  Opened =>
    /\ zbd.max_nr_active_io_zones_ =
         IF be.max_active = 0 THEN be.nr_zones ELSE be.max_active - 2
    /\ zbd.max_nr_open_io_zones_ =
         IF be.max_open = 0 THEN be.nr_zones ELSE be.max_open - 2
    /\ be.max_active # 0 =>
         /\ 0 <= zbd.max_nr_active_io_zones_
         /\ ULess(zbd.max_nr_active_io_zones_, be.max_active)
    /\ be.max_open # 0 =>
         /\ 0 <= zbd.max_nr_open_io_zones_
         /\ ULess(zbd.max_nr_open_io_zones_, be.max_open)
    /\ ~ULess(OpenLimit(TRUE), OpenLimit(FALSE))

(* -------------------------------------------------------- the busy flag *)
\* the zones a thread at rest may still hold: the one its last call handed out
HandedOut(t) == IF loc[t].out # NoZone THEN {loc[t].out} ELSE {}

\* C2: when a call has returned, every zone it acquired is released again,
\* except the zone it handed to its caller.
C2_AcquiredZonesReleased ==
  \A t \in Threads : pc[t] \in {"idle", "ret"} => acq[t] = HandedOut(t)

(* ------------------------------------------------------ the migration slot *)
\* the threads that hold a zone TakeMigrateZone or GetMigrateTargetZone returned
MigrationHolders ==
  {t \in Threads : /\ Holding(t)
                   /\ loc[t].op \in {"TakeMigrateZone", "GetMigrateTargetZone"}}

\* C3: at most one thread holds a migration zone, and whenever no call is
\* inside the migration lock, migrating_ is true exactly when a thread holds one.
C3_OneMigration ==
  /\ Cardinality(MigrationHolders) <= 1
  /\ migrate_zone_mtx_ = 0 => (zbd.migrating_ <=> MigrationHolders # {})

\* a take that returned no zone, then a take by the other thread that holds one
C3_Witness ==
  \E t, u \in Threads :
    /\ t \in MigrationHolders
    /\ u # t /\ pc[u] = "ret" /\ loc[u].out = NoZone
    /\ loc[u].op \in {"TakeMigrateZone", "GetMigrateTargetZone"}
    /\ migrate_zone_mtx_ = 0

(* --------------------------------------------------- the deferred status *)
\* C4: after SetZoneDeferredStatus was called with a status that is not OK,
\* GetZoneDeferredStatus returns that status.
C4_StatusLatched ==
  \A t \in Threads :
    pc[t] = "ret" /\ loc[t].op = "SetZoneDeferredStatus"
      => GetZoneDeferredStatus = loc[t].st

(* ------------------------------------------------------- zone geometry *)
\* C5, as stated: start <= wp <= start + max_capacity, and capacity =
\* max_capacity - (wp - start) whenever the zone is neither full nor offline.
C5_WpWithinMaxCapacity ==
  \A z \in AllZones :
    /\ zone[z].start_ <= zone[z].wp_
    /\ zone[z].wp_ <= zone[z].start_ + zone[z].max_capacity_
    /\ zone[z].capacity_ # 0 =>
         zone[z].capacity_ = zone[z].max_capacity_ - (zone[z].wp_ - zone[z].start_)

\* C5, amended: start <= wp <= start + zone size; wp <= start + max_capacity
\* unless the zone is full with its write pointer at the end of the zone (it
\* was finished); capacity = max_capacity - (wp - start) whenever the zone is
\* neither full nor offline.
C5_WpWithinZone ==
  \A z \in AllZones :
    /\ zone[z].start_ <= zone[z].wp_
    /\ zone[z].wp_ <= zone[z].start_ + be.zone_size
    /\ \/ zone[z].wp_ <= zone[z].start_ + zone[z].max_capacity_
       \/ /\ zone[z].capacity_ = 0
          /\ zone[z].wp_ = zone[z].start_ + be.zone_size
    /\ zone[z].capacity_ # 0 =>
         zone[z].capacity_ = zone[z].max_capacity_ - (zone[z].wp_ - zone[z].start_)

\* a zone smaller than the zone size was written, and another one finished
C5_Witness ==
  \E y, z \in IOZoneSet :
    /\ zone[z].max_capacity_ < be.zone_size
    /\ zone[z].wp_ = zone[z].start_ + be.zone_size
    /\ zone[y].max_capacity_ < be.zone_size
    /\ zone[y].capacity_ # 0
    /\ zone[y].wp_ > zone[y].start_
    /\ zone[y].used_capacity_ > 0

\* C6: in every step, a zone whose reset_count_ stays has a write pointer
\* that does not go back, and a zone whose reset_count_ changes has it raised
\* by one, its write pointer at start, no live data and no lifetime hint.
C6_Step ==
  \A z \in AllZones :
    IF zone'[z].reset_count_ = zone[z].reset_count_
      THEN zone'[z].wp_ >= zone[z].wp_
      ELSE /\ zone'[z].reset_count_ = zone[z].reset_count_ + 1
           /\ zone'[z].wp_ = zone'[z].start_
           /\ zone'[z].used_capacity_ = 0
           /\ zone'[z].lifetime_ = WLTH_NOT_SET

C6_WpMonotoneUntilReset == [][C6_Step]_vars

\* a zone that was written with a lifetime hint, reset, and written again
C6_Witness ==
  \E z \in IOZoneSet :
    /\ zone[z].reset_count_ > 0
    /\ zone[z].wp_ > zone[z].start_
    /\ zone[z].lifetime_ # WLTH_NOT_SET

(* ----------------------------------------------- mutation under the flag *)
\* the zone thread t is about to reset, finish or give a lifetime, if any
Mutating(t) ==
  CASE pc[t] \in {"ru_reset", "am_reset", "ft_finish"} -> {loc[t].cur}
    [] pc[t] = "fc_finish" -> {loc[t].victim}
    [] pc[t] \in {"al_new", "gm_life"} /\ loc[t].az # NoZone -> {loc[t].az}
    [] Holding(t) -> {loc[t].out}
    [] OTHER -> {}

\* C7: no zone is acquired by two threads, every acquired zone is busy, and a
\* thread (Open included) about to reset, finish, close, append to or set the
\* lifetime of a zone has acquired that zone.
C7_MutationUnderBusy ==
  /\ \A t, u \in 0 .. NThreads : t # u => acq[t] \cap acq[u] = {}
  /\ \A t \in 0 .. NThreads : \A z \in acq[t] : zone[z].busy_
  /\ \A t \in Threads : Mutating(t) \subseteq acq[t]
  /\ opn.pc = "io_close" => opn.i \in acq[0]

\* one thread is about to reset a zone while the other gives a lifetime to
\* another zone
C7_Witness ==
  \E t, u \in Threads :
    /\ pc[t] = "ru_reset" /\ pc[u] = "al_new"
    /\ loc[u].az # NoZone /\ loc[u].az # loc[t].cur

(* ------------------------------------------------------ lifetime matching *)
\* AllocateIOZone has handed thread t a zone that was already open
GotOpenZone(t) ==
  /\ pc[t] = "ret" /\ loc[t].op = "AllocateIOZone"
  /\ loc[t].out # NoZone /\ ~loc[t].newz

\* the io zones, other than the one handed to t, that can take a request
OtherCandidates(t) ==
  {z \in IOZoneSet \ {loc[t].out} : ~IsBusy(z) /\ IsCandidate(z, 0)}

\* C8, as stated: a request is not placed in an open zone with another
\* lifetime hint while an open zone with the hint of the request can take it.
C8_SameHintPreferred ==
  \A t \in Threads :
    GotOpenZone(t) /\ zone[loc[t].out].lifetime_ # loc[t].hint
      => \A z \in OtherCandidates(t) : zone[z].lifetime_ # loc[t].hint

\* C8, amended: the open zone AllocateIOZone returns has the smallest
\* lifetime diff to the request among the zones that can take it, a zone
\* with a longer lifetime than the request (diff = the difference of the
\* hints) coming before a zone with the same one (diff = 50).
C8_SmallestDiffPreferred ==
  \A t \in Threads :
    GotOpenZone(t)
      => \A z \in OtherCandidates(t) :
           GetLifeTimeDiff(zone[z].lifetime_, loc[t].hint)
             >= GetLifeTimeDiff(zone[loc[t].out].lifetime_, loc[t].hint)

\* a SHORT request got the open LONG zone although an open SHORT zone could
\* take it
C8_Witness ==
  \E t \in Threads :
    /\ GotOpenZone(t)
    /\ loc[t].hint = WLTH_SHORT
    /\ zone[loc[t].out].lifetime_ = WLTH_LONG
    /\ \E z \in OtherCandidates(t) : zone[z].lifetime_ = WLTH_SHORT

(* --------------------------------------------------- finish the cheapest *)
\* the io zones that are written and not full
PartlyWritten == {z \in IOZoneSet : ~IsEmpty(z) /\ ~IsFull(z)}

\* the steps of AllocateIOZone by thread t once no open zone was kept and no
\* active token was free: the zone finished is a partly written one of the
\* smallest capacity, and only it changes; its active token goes back
C12_FinishStep(t) ==
  /\ pc[t] = "fc_finish" /\ pc'[t] = "fc_rel2" /\ loc'[t].st = "OK"
       => /\ loc[t].victim \in PartlyWritten
          /\ \A z \in PartlyWritten :
               zone[loc[t].victim].capacity_ <= zone[z].capacity_
          /\ zone'[loc[t].victim].capacity_ = 0
          /\ \A z \in AllZones \ {loc[t].victim} : zone'[z] = zone[z]
  /\ pc[t] = "fc_put" /\ pc'[t] # "fc_put" /\ loc[t].st = "OK" /\ loc[t].rel = "OK"
       => zbd'.active_io_zones_ = zbd.active_io_zones_ - 1

\* the call of thread t ends with the zone it opened: empty, of the lifetime
\* asked for, within the limit of active zones
C12_NewZoneStep(t) ==
  /\ pc[t] = "al_new" /\ pc'[t] = "al_fin" /\ loc[t].az # NoZone
       => /\ IsEmpty(loc[t].az)
          /\ zone'[loc[t].az].lifetime_ = loc[t].hint
          /\ loc'[t].newz
  /\ pc[t] = "al_fin" /\ pc'[t] # "al_fin" /\ loc[t].newz
       => /\ pc'[t] = "ret" /\ loc'[t].out = loc[t].az /\ loc'[t].st = "OK"
          /\ zone[loc[t].az].busy_
          /\ LongLeqU(zbd'.active_io_zones_, zbd'.max_nr_active_io_zones_)

\* the call of thread t got its active token from a finish, not before
AfterFinish(t) == pc[t] = "al_new" /\ ~loc[t].got

C12_StepAsStated ==
  \A t \in {1} :
    /\ C12_FinishStep(t)
    /\ C12_NewZoneStep(t)
    /\ AfterFinish(t) => loc[t].az # NoZone

\* C12, as stated: when AllocateIOZone keeps no open zone and finds no active
\* token, it finishes the partly written io zone of the smallest capacity,
\* puts that zone's active token back and returns a newly opened empty zone
\* of the lifetime asked for, active_io_zones_ within its limit.
C12_FinishThenNewZone == [][C12_StepAsStated]_vars

C12_StepAmended ==
  \A t \in {1} :
    /\ C12_FinishStep(t)
    /\ C12_NewZoneStep(t)
    /\ AfterFinish(t) =>
         IF \E z \in IOZoneSet : IsEmpty(z)
           THEN loc[t].az # NoZone
           ELSE /\ loc[t].az = NoZone
                /\ pc'[t] = "al_fin"
                     => zbd'.active_io_zones_ = zbd.active_io_zones_ - 1

\* C12, amended: the same, provided an io zone is empty; when none is, the
\* call puts the active token back again and returns no zone.
C12_FinishThenNewZoneIfEmpty == [][C12_StepAmended]_vars

\* a call that finished a zone the device listed as partly written is about
\* to give the lifetime asked for to the empty zone it opened
C12_Witness ==
  /\ AfterFinish(1) /\ loc[1].az # NoZone
  /\ \E z \in IOZoneSet :
       /\ zone[z].capacity_ = 0
       /\ zone[z].wp_ = zone[z].start_ + be.zone_size
       /\ be.rep[z].wp < be.zone_size

(* ------------------------------------------------ wear-leveling trigger *)
\* the step is a Zone::Reset that returned OK
ResetStep == zbd'.total_reset_count_ = zbd.total_reset_count_ + 1
\* the step woke the wear-leveling worker
WakeStep == zbd'.wl_worker_cv_ = zbd.wl_worker_cv_ + 1
\* the resets of io zones counted after the step
IOResetsAfter == zbd'.total_reset_count_ - SumResets(meta_zones, zone')
\* check_reset_count_ as the step finds it, floored to the number of zones
CheckFloored ==
  IF zbd.check_reset_count_ < be.nr_zones THEN be.nr_zones
  ELSE zbd.check_reset_count_

C13_Step ==
  ResetStep /\ WakeStep =>
    /\ zbd'.total_reset_count_ > be.nr_zones
    /\ IOResetsAfter - CheckFloored >= be.nr_zones
    /\ 100 * (IOResetsAfter - CheckFloored)
         > IOResetsAfter * zbd.reset_ratio_threshold_
    /\ zbd'.check_reset_count_ = IOResetsAfter

\* C13: a Reset wakes the wear-leveling worker only if total_reset_count_ is
\* above the number of zones and the io zone resets since check_reset_count_
\* are at least the number of zones and more than reset_ratio_threshold_
\* percent of all io zone resets; check_reset_count_ is then the io zone
\* reset count.
C13_WakeOnlyOnCrossing == [][C13_Step]_vars

\* the step woke the worker on a crossing: the io zone resets since
\* check_reset_count_ are at least the number of zones
CrossingStep ==
  ResetStep /\ WakeStep /\ IOResetsAfter - CheckFloored >= be.nr_zones

C14_Step ==
  CrossingStep =>
    IF zbd.wl_trigger_count_ >= 2
      THEN /\ zbd'.wl_trigger_count_ = 0
           /\ zbd'.reset_ratio_threshold_
                = DampedThreshold(zbd.reset_ratio_threshold_, zone')
      ELSE /\ zbd'.wl_trigger_count_ = zbd.wl_trigger_count_ + 1
           /\ zbd'.reset_ratio_threshold_ = zbd.reset_ratio_threshold_

\* C14: a Reset that triggers the wear-leveling worker without damping adds
\* one to wl_trigger_count_; one that finds wl_trigger_count_ at 2 damps
\* reset_ratio_threshold_ and sets wl_trigger_count_ back to 0.
C14_TriggersCounted == [][C14_Step]_vars

\* thread t appends size bytes to the zone it holds, the backend writing w
AppendStep(t, size, w) == ClientAppend(t, size, w)

C15_Step ==
  \A t \in Threads : \A size \in SeqSizes : \A w \in BackendWrite(size) :
    AppendStep(t, size, w) =>
      LET z == loc[t].out IN
      /\ size > zone[z].capacity_ =>
            /\ loc'[t].st = "NoSpace"
            /\ zone' = zone
            /\ be' = be
      /\ size = 0 =>
            /\ loc'[t].st = "OK"
            /\ zone'[z].wp_ = zone[z].wp_
            /\ zone'[z].capacity_ = zone[z].capacity_

\* C15: an Append of more bytes than the zone's capacity returns NoSpace and
\* leaves the zone and the backend as they were (nothing is written); an
\* Append of zero bytes returns OK and leaves wp and capacity as they were.
C15_AppendNoSpace == [][C15_Step]_vars

\* a thread was refused an append to the partly written zone it holds
C15_Witness ==
  \E t \in Threads :
    /\ Holding(t)
    /\ loc[t].st = "NoSpace"
    /\ zone[loc[t].out].capacity_ < ZoneSize - 1
    /\ zone[loc[t].out].capacity_ > 0

\* thread t takes a step of its GetMigrateTargetZone
GmStep(t) ==
  /\ loc[t].op = "GetMigrateTargetZone"
  /\ pc[t] # "ret"
  /\ pc'[t] # pc[t] \/ loc'[t] # loc[t]

\* the places in io_zones of the empty zones that were not busy when the scan
\* of t began: those not busy now and the one t holds as its target
EmptyFree(t) ==
  {i \in 1 .. Len(io_zones) :
     /\ IsEmpty(io_zones[i])
     /\ ~IsBusy(io_zones[i]) \/ io_zones[i] = loc[t].az}

\* the first place in S of a zone with the highest reset count
HighestResetCount(S) ==
  CHOOSE i \in S : \A j \in S :
    \/ zone[io_zones[j]].reset_count_ < zone[io_zones[i]].reset_count_
    \/ zone[io_zones[j]].reset_count_ = zone[io_zones[i]].reset_count_ /\ i <= j

TokensAfter(t, open, active) ==
  /\ zbd'.open_io_zones_ = zbd.open_io_zones_ + open
  /\ zbd'.active_io_zones_ = zbd.active_io_zones_ + active

C16_Step ==
  \A t \in Threads : GmStep(t) =>
    LET l == loc[t] IN
    \* the open token, taken once
    /\ pc[t] = "gm_wait" => pc'[t] = "g1_scan" /\ TokensAfter(t, 1, 0)
    \* the scan takes no token and ends holding the expected zone alone
    /\ pc[t] = "g1_scan" /\ pc'[t] \in {"g1_scan", "g1_rel", "g1_relprev"} =>
          TokensAfter(t, 0, 0)
    /\ pc[t] \in {"g1_rel", "g1_relprev"} /\ pc'[t] = "g1_scan" =>
          TokensAfter(t, 0, 0)
    /\ pc[t] = "g1_scan" /\ pc'[t] \notin {"g1_scan", "g1_rel", "g1_relprev"}
          /\ EmptyFree(t) # {} =>
          /\ pc'[t] = "gm_token"
          /\ l.az = io_zones[HighestResetCount(EmptyFree(t))]
          /\ acq'[t] \cap IOZoneSet = {l.az}
          /\ loc'[t].az = l.az
          /\ TokensAfter(t, 0, 0)
    \* the active token, taken once
    /\ pc[t] = "gm_token" /\ ActiveTokenFree =>
          /\ pc'[t] = "gm_life"
          /\ TokensAfter(t, 0, 1)
          /\ loc'[t].az = l.az
    \* the lifetime, and the zone handed out busy
    /\ pc[t] = "gm_life" =>
          /\ pc'[t] = "gm_end"
          /\ zone'[l.az].lifetime_ = l.hint
          /\ loc'[t].az = l.az
          /\ TokensAfter(t, 0, 0)
    /\ pc[t] = "gm_end" /\ l.az # NoZone /\ IsEmpty(l.az) =>
          /\ pc'[t] = "ret"
          /\ loc'[t].st = "OK"
          /\ loc'[t].out = l.az
          /\ zone'[l.az].busy_
          /\ zone'[l.az].lifetime_ = l.hint
          /\ acq'[t] \cap IOZoneSet = {l.az}
          /\ TokensAfter(t, 0, 0)

\* C16: with a non-busy empty io zone and a free active token,
\* GetMigrateTargetZone takes one open token, ends its first scan holding only
\* the first of the non-busy empty zones with the highest reset count, takes
\* one active token, sets the zone's lifetime to the hint asked for and hands
\* the zone out busy, every other zone released.
C16_EmptyTargetHighestReset == [][C16_Step]_vars

\* GetMigrateTargetZone handed out the second of two empty zones, the one
\* reset more often, or the first of two empty zones reset equally often
C16_Witness ==
  \E t \in Threads :
    /\ pc[t] = "ret" /\ loc[t].op = "GetMigrateTargetZone"
    /\ loc[t].out # NoZone /\ IsEmpty(loc[t].out)
    /\ Len(io_zones) = 2
    /\ \A k \in 1 .. 2 : IsEmpty(io_zones[k])
    /\ \/ /\ loc[t].out = io_zones[2] /\ ~IsBusy(io_zones[1])
          /\ zone[io_zones[2]].reset_count_ > zone[io_zones[1]].reset_count_
       \/ /\ loc[t].out = io_zones[1] /\ ~IsBusy(io_zones[2])
          /\ zone[io_zones[2]].reset_count_ = zone[io_zones[1]].reset_count_

\* the first n of the zones in S, in the order of the zone report
FirstOf(S, n) == {z \in S : Cardinality({y \in S : y < z}) < n}
\* the sequential-write-required zones of the report that are not offline
UsableZones == {z \in SwrZones : ~be.rep[z].offline}

\* thread t was handed zone z by a call of one of ops
Handed(t, z, ops) == pc[t] = "ret" /\ loc[t].out = z /\ loc[t].op \in ops

IOZoneCalls == {"AllocateIOZone", "TakeMigrateZone", "GetMigrateTargetZone"}

\* C17 as stated: AllocateMetaZone hands out only zones among the first
\* ZENFS_META_ZONES usable (sequential-write-required, not offline) zones,
\* AllocateIOZone, TakeMigrateZone and GetMigrateTargetZone none of them.
C17_ByUsablePosition ==
  \A t \in Threads : \A z \in SwrZones :
    /\ Handed(t, z, {"AllocateMetaZone"}) =>
          z \in FirstOf(UsableZones, ZENFS_META_ZONES)
    /\ Handed(t, z, IOZoneCalls) =>
          z \notin FirstOf(UsableZones, ZENFS_META_ZONES)

\* C17: AllocateMetaZone hands out only the zones that are not offline among
\* the first ZENFS_META_ZONES sequential-write-required zones of the report,
\* AllocateIOZone, TakeMigrateZone and GetMigrateTargetZone none of these
\* first zones.
C17_ByPosition ==
  \A t \in Threads : \A z \in SwrZones :
    /\ Handed(t, z, {"AllocateMetaZone"}) =>
          z \in FirstOf(SwrZones, ZENFS_META_ZONES) \cap UsableZones
    /\ Handed(t, z, IOZoneCalls) =>
          z \notin FirstOf(SwrZones, ZENFS_META_ZONES)

\* on a device with an offline zone among its first ZENFS_META_ZONES, a meta
\* zone has been handed out and then an io zone
C17_Witness ==
  /\ \E z \in FirstOf(SwrZones, ZENFS_META_ZONES) : be.rep[z].offline
  /\ \E t \in Threads : \E z \in SwrZones :
       /\ Handed(t, z, IOZoneCalls)
       /\ acq[t] \cap FirstOf(SwrZones, ZENFS_META_ZONES) # {}

\* thread t resets the empty zone it holds, the device keeping the zone usable
ResetOfEmpty(t) ==
  /\ Holding(t)
  /\ \E r \in BackendReset(loc[t].out) :
    /\ ClientReset(t, r)
    /\ r[1] /\ ~r[2]
    /\ IsEmpty(loc[t].out) /\ ~IsFull(loc[t].out)

\* what the reset of the zone t holds changes besides the lifetime
C18_ResetCounts(t) ==
  LET z == loc[t].out IN
  /\ zone'[z].wp_ = zone[z].wp_
  /\ zone'[z].capacity_ = zone[z].capacity_
  /\ zone'[z].reset_count_ = zone[z].reset_count_ + 1
  /\ zbd'.total_reset_count_ = zbd.total_reset_count_ + 1
  /\ \A f \in {"busy_", "start_", "max_capacity_", "used_capacity_"} :
       zone'[z][f] = zone[z][f]
  /\ \A y \in DOMAIN zone \ {z} : zone'[y] = zone[y]

C18_StepAsStated ==
  \A t \in Threads : ResetOfEmpty(t) =>
    /\ C18_ResetCounts(t)
    /\ zone'[loc[t].out].lifetime_ = zone[loc[t].out].lifetime_

C18_StepAmended ==
  \A t \in Threads : ResetOfEmpty(t) =>
    /\ C18_ResetCounts(t)
    /\ zone'[loc[t].out].lifetime_ = WLTH_NOT_SET

DiffTo(t, z) == GetLifeTimeDiff(zone[z].lifetime_, loc[t].hint)

\* GetBestOpenZoneMatch of thread t has returned zone z to its caller
MatchOutput(t, z) == pc[t] \in {"tm_done", "al_match"} /\ loc[t].az = z

\* C19: GetBestOpenZoneMatch never outputs a zone whose lifetime diff to the
\* hint asked for is LIFETIME_DIFF_NOT_GOOD, and neither AllocateIOZone nor
\* TakeMigrateZone hands out such a zone.
C19_NotGoodNeverSelected ==
  \A t \in Threads : \A z \in IOZoneSet :
    /\ MatchOutput(t, z) => DiffTo(t, z) # LIFETIME_DIFF_NOT_GOOD
    /\ Handed(t, z, {"AllocateIOZone", "TakeMigrateZone"}) =>
          DiffTo(t, z) # LIFETIME_DIFF_NOT_GOOD

\* the place of zone z in io_zones
Place(z) == CHOOSE k \in 1 .. Len(io_zones) : io_zones[k] = z

\* the zones GetBestOpenZoneMatch of thread t could acquire and take: the
\* candidates that are not busy and the one it holds
MatchCandidates(t) ==
  {z \in IOZoneSet : /\ IsCandidate(z, loc[t].minc)
                     /\ ~IsBusy(z) \/ z = loc[t].az}

\* C20: GetBestOpenZoneMatch outputs the first, in the order of io_zones, of
\* the candidates with the smallest lifetime diff to the hint asked for.
C20_FirstOfSmallestDiff ==
  \A t \in Threads :
    pc[t] \in {"tm_done", "al_match"} /\ MatchCandidates(t) # {} =>
      /\ loc[t].az \in MatchCandidates(t)
      /\ \A z \in MatchCandidates(t) \ {loc[t].az} :
           \/ DiffTo(t, z) > DiffTo(t, loc[t].az)
           \/ DiffTo(t, z) = DiffTo(t, loc[t].az) /\ Place(z) > Place(loc[t].az)

\* thread t takes a step of its AllocateIOZone from p
AlStepFrom(t, p) ==
  /\ loc[t].op = "AllocateIOZone"
  /\ pc[t] \in p
  /\ pc'[t] # pc[t] \/ loc'[t] # loc[t]

\* the match of t has the lifetime asked for and was found by the scan
SameLifetimeMatch(t) ==
  /\ loc[t].az # NoZone
  /\ loc[t].bd = LIFETIME_DIFF_COULD_BE_WORSE
  /\ ~loc[t].newz

C21_Step ==
  \A t \in Threads :
    \* the open token, taken once, none taken by the scan for the match
    /\ AlStepFrom(t, {"al_wait"}) => TokensAfter(t, 1, 0)
    /\ AlStepFrom(t, {"bm_scan", "bm_rel", "bm_relprev"}) /\ pc'[t] # "ret" =>
          TokensAfter(t, 0, 0)
    \* no active token: the match is kept as it is
    /\ AlStepFrom(t, {"al_match"}) /\ SameLifetimeMatch(t) /\ ~ActiveTokenFree =>
          /\ pc'[t] = "al_fin"
          /\ loc'[t].az = loc[t].az
          /\ zone' = zone
          /\ TokensAfter(t, 0, 0)
    \* and handed out busy
    /\ AlStepFrom(t, {"al_fin"}) /\ SameLifetimeMatch(t) =>
          /\ pc'[t] = "ret"
          /\ loc'[t].st = "OK"
          /\ loc'[t].out = loc[t].az
          /\ zone' = zone
          /\ IsBusy(loc[t].az)
          /\ loc[t].az \in acq'[t]
          /\ TokensAfter(t, 0, 0)

\* C21: when the best open match has the lifetime asked for and no active
\* token is free, AllocateIOZone hands out that zone busy, finishes no zone,
\* leaves active_io_zones_ as it is and keeps the one open token it took.
C21_KeepsMatchWithoutToken == [][C21_Step]_vars

\* AllocateIOZone handed out an open zone of the lifetime asked for while no
\* active token is free
C21_Witness ==
  \E t \in Threads :
    /\ Handed(t, loc[t].out, {"AllocateIOZone"})
    /\ loc[t].out # NoZone /\ ~loc[t].newz
    /\ zone[loc[t].out].lifetime_ = loc[t].hint
    /\ ~ActiveTokenFree

\* zone z is due for the sweep: written, not full and with less capacity left
\* than finish_threshold_ percent of max_capacity_
SweepDue(z) ==
  /\ ~IsEmpty(z) /\ ~IsFull(z)
  /\ 100 * (zone[z].capacity_ + 1) <= zone[z].max_capacity_ * zbd.finish_threshold_

\* the step changes of the zones at most the busy flag of zone z
OnlyBusyOf(z) ==
  /\ \A y \in DOMAIN zone \ {z} : zone'[y] = zone[y]
  /\ zone' = [zone EXCEPT ![z].busy_ = zone'[z].busy_]

C22_Step ==
  \A t \in Threads :
    LET l == loc[t] IN
    \* no sweep for a WAL request or with finish_threshold_ = 0
    /\ AlStepFrom(t, {"al_start"}) /\ l.wal =>
          pc'[t] \in {"al_wait", "ret"} /\ zone' = zone /\ TokensAfter(t, 0, 0)
    /\ AlStepFrom(t, {"ft_scan"}) /\ zbd.finish_threshold_ = 0 =>
          pc'[t] = "al_wait" /\ zone' = zone /\ TokensAfter(t, 0, 0)
    \* the scan: a zone that is not busy is finished iff it is due
    /\ AlStepFrom(t, {"ft_scan"}) /\ pc'[t] \in {"ft_finish", "ft_rel"} =>
          LET z == loc'[t].cur IN
          /\ z = io_zones[l.i] /\ ~IsBusy(z)
          /\ pc'[t] = "ft_finish" <=> SweepDue(z)
          /\ OnlyBusyOf(z) /\ TokensAfter(t, 0, 0)
    /\ AlStepFrom(t, {"ft_scan"}) /\ pc'[t] = "ft_scan" =>
          IsBusy(io_zones[l.i]) /\ zone' = zone /\ TokensAfter(t, 0, 0)
    \* the sweep ends with no zone left that is due and not busy
    /\ AlStepFrom(t, {"ft_scan"}) /\ pc'[t] = "al_wait" =>
          /\ \A z \in IOZoneSet : ~IsBusy(z) => ~SweepDue(z)
          /\ zone' = zone /\ TokensAfter(t, 0, 0)
    \* the finish of a zone that is due, and its one active token
    /\ AlStepFrom(t, {"ft_finish"}) /\ pc'[t] = "ft_rel2" =>
          /\ zone'[l.cur].capacity_ = 0
          /\ \A y \in DOMAIN zone \ {l.cur} : zone'[y] = zone[y]
          /\ TokensAfter(t, 0, 0)
    /\ AlStepFrom(t, {"ft_rel2"}) /\ pc'[t] = "ft_put" =>
          OnlyBusyOf(l.cur) /\ ~zone'[l.cur].busy_ /\ TokensAfter(t, 0, 0)
    /\ AlStepFrom(t, {"ft_put"}) =>
          pc'[t] = "ft_scan" /\ zone' = zone /\ TokensAfter(t, 0, -1)
             /\ loc'[t].i = l.i + 1
    \* a zone that is not due is released as it was
    /\ AlStepFrom(t, {"ft_rel"}) /\ pc'[t] = "ft_scan" =>
          OnlyBusyOf(l.cur) /\ ~zone'[l.cur].busy_ /\ TokensAfter(t, 0, 0)
             /\ loc'[t].i = l.i + 1

\* C22: with finish_threshold_ > 0 the sweep of a non-WAL AllocateIOZone
\* finishes every io zone that is not busy, written, not full and has less
\* capacity than finish_threshold_ percent of its max_capacity_, gives one
\* active token back for each and leaves the other zones as they were; for a
\* WAL request and with finish_threshold_ = 0 no zone is finished and no
\* token given back.
C22_FinishThresholdSweep == [][C22_Step]_vars

\* the sweep has finished and released a zone and is to give its token back
C22_Witness ==
  \E t \in Threads :
    /\ pc[t] = "ft_put" /\ zbd.finish_threshold_ > 0 /\ ~loc[t].wal
    /\ IsFull(loc[t].cur) /\ ~IsBusy(loc[t].cur)

\* the first place in S of a zone with the lowest reset count
LowestResetCount(S) ==
  CHOOSE i \in S : \A j \in S :
    \/ zone[io_zones[j]].reset_count_ > zone[io_zones[i]].reset_count_
    \/ zone[io_zones[j]].reset_count_ = zone[io_zones[i]].reset_count_ /\ i <= j

\* AllocateEmptyZone of thread t has returned to AllocateIOZone
EmptyZoneOutput(t) == pc[t] = "al_new" /\ loc[t].op = "AllocateIOZone"

\* C23: AllocateEmptyZone returns, busy, the first of the non-busy empty io
\* zones with the highest reset count when the lifetime is below WLTH_SHORT
\* and the first with the lowest reset count otherwise, every other io zone
\* released; it returns no zone only when no empty io zone is free.
C23_WearAwareEmptyZone ==
  \A t \in Threads : EmptyZoneOutput(t) =>
    LET S == EmptyFree(t) IN
    IF S = {}
      THEN loc[t].az = NoZone /\ acq[t] \cap IOZoneSet = {}
      ELSE /\ loc[t].az = io_zones[IF loc[t].hint < WLTH_SHORT
                                     THEN HighestResetCount(S)
                                     ELSE LowestResetCount(S)]
           /\ IsBusy(loc[t].az)
           /\ acq[t] \cap IOZoneSet = {loc[t].az}

\* of two free empty zones reset unequally often, AllocateEmptyZone returned
\* the second: the one reset more often for a lifetime below WLTH_SHORT, the
\* one reset less often otherwise
C23_Witness ==
  \E t \in Threads :
    /\ EmptyZoneOutput(t)
    /\ Len(io_zones) = 2 /\ loc[t].az = io_zones[2]
    /\ IsEmpty(io_zones[1]) /\ ~IsBusy(io_zones[1])
    /\ IF loc[t].hint < WLTH_SHORT
         THEN zone[io_zones[2]].reset_count_ > zone[io_zones[1]].reset_count_
         ELSE zone[io_zones[2]].reset_count_ < zone[io_zones[1]].reset_count_

\* the verdict table: the case of both write samples below their threshold,
\* then the other case
C24_Table(w1, r1, w2, r2, wthr, rthr) ==
  IF w1 < wthr /\ w2 < wthr /\ r1 < rthr /\ r2 < rthr THEN 1
  ELSE IF w1 < wthr /\ w2 < wthr
    THEN IF r2 > r1 THEN 0
         ELSE IF 100 * (r1 - r2) > 5 * rthr THEN 1 ELSE 0
  ELSE IF w2 > w1 THEN 0
  ELSE IF 100 * (w1 - w2) > 5 * wthr /\ r1 < rthr /\ r2 < rthr THEN 1
  ELSE 0

\* C24: the verdict of JudgeQpsTrend for the samples w1, r1, w2, r2 and the
\* thresholds in force is the one of the verdict table read top to bottom.
C24_VerdictTable ==
  \A t \in Threads :
    pc[t] = "ret" /\ loc[t].op = "JudgeQpsTrend" =>
      loc[t].verdict = C24_Table(loc[t].qps[1], loc[t].qps[2],
                                 loc[t].qps[3], loc[t].qps[4],
                                 zbd.idle_qps_write_threshold_,
                                 zbd.idle_qps_read_threshold_)

\* JudgeQpsTrend found the device idle against a raised write threshold
C24_Witness ==
  \E t \in Threads :
    /\ pc[t] = "ret" /\ loc[t].op = "JudgeQpsTrend"
    /\ loc[t].verdict = 1
    /\ zbd.idle_qps_write_threshold_ > IdleQpsWriteDefault

\* a single client whose call of AllocateIOZone goes on as long as it has a
\* step to take: the thread is running, not waiting
SpecSeqFair == SpecSeq /\ WF_vars(AllocateIOZone(1))

\* C25: once AllocateIOZone holds its open token and asks for an active one
\* (line 1191), the call returns after finitely many steps.
C25_AllocateReturns == (pc[1] = "al_ensure") ~> (pc[1] = "ret")

C26_Step ==
  GmStep(1) /\ pc'[1] = "ret" =>
    /\ loc'[1].st = "NotFound" => TokensOf(loc[1]) = <<0, 0>>
    /\ loc'[1].out # NoZone => TokensOf(loc[1])[1] = 1

\* C26: a call of GetMigrateTargetZone that returns NotFound leaves
\* open_io_zones_ and active_io_zones_ as they were before it, and a call that
\* returns a zone has taken exactly one open token.
C26_MigrateTokens == [][C26_Step]_vars

\* thread t, a prioritized caller, is blocked in the wait although an open
\* token is free for it
PrioritizedStarved(t) ==
  /\ pc[t] = "tok_wait" /\ loc[t].wal
  /\ OpenTokenFree(TRUE)

\* C27: a prioritized caller does not stay blocked in WaitForOpenIOZoneToken
\* for ever while open_io_zones_ stays below max_nr_open_io_zones_.
C27_PrioritizedNotStarved ==
  \A t \in TokThreads : []<>(~PrioritizedStarved(t))

\* the step by which a call of ops by thread t hands out a zone
HandsOut(t, ops) ==
  /\ pc[t] # "ret" /\ pc'[t] = "ret"
  /\ loc'[t].op \in ops /\ loc'[t].out # NoZone

C28_Step ==
  \A t \in Threads :
    HandsOut(t, {"AllocateIOZone", "GetMigrateTargetZone"}) =>
      zone'[loc'[t].out].capacity_ > 0

\* C28: every zone AllocateIOZone or GetMigrateTargetZone hands out for writing
\* has capacity left; a zone reported offline at its reset (capacity 0,
\* wp = start) is never handed out as an empty zone.
C28_HandedOutHasCapacity == [][C28_Step]_vars

\* the io zones that are not busy, used, not full and of lifetime hint once
\* the step is done
SameLifetimeFree(hint) ==
  {z \in IOZoneSet : /\ ~zone'[z].busy_
                     /\ zone'[z].used_capacity_ > 0
                     /\ zone'[z].capacity_ > 0
                     /\ zone'[z].lifetime_ = hint}

C29_Step ==
  \A t \in Threads :
    /\ pc[t] # "ret" /\ pc'[t] = "ret"
    /\ loc'[t].op = "AllocateIOZone" /\ loc'[t].st = "OK"
    /\ loc'[t].out = NoZone
    => SameLifetimeFree(loc[t].hint) = {}

\* C29: AllocateIOZone returns no zone with OK only when nothing is
\* allocatable: not when some io zone that is not busy is used, not full and
\* of the lifetime asked for.
C29_NullOnlyIfNothingAllocatable == [][C29_Step]_vars

====
